---- MODULE Spec2Model ----
(***************************************************************************)
(* Booking lifecycle and slot calculator of src/bot.py.                    *)
(*                                                                         *)
(* Instants are seconds of Kyiv wall-clock time counted from 00:00 of day  *)
(* 0; day 0 is a Friday, so day 1 is a Saturday, day 2 a Sunday and day 3  *)
(* a Monday.  A "HH:MM" text is held as the number HH*60+MM (FormatTime),  *)
(* a missing value (Python None) as -1 for numbers, "none" for ids and <<>>*)
(* for the pending_reason text.                                            *)
(***************************************************************************)
EXTENDS Integers, Sequences, FiniteSets, TLC

\* ------------------------------------------------------------------ bounds
MaxReq == 1
MaxTicks == 1
MaxDialogues == 1
MaxTasks == 2

\* ------------------------------------------------------- program constants
OpenHour == 9
CloseHour == 16
HalfHour == 30
LeadHours == 1
GraceHours == 20
Sunday == 6
RecentLimit == 3

None == -1
NoId == "none"

\* --------------------------------------------------------------- datetime
DaySeconds == 24 * 3600

DateOf(t) == t \div DaySeconds

HourOf(t) == (t % DaySeconds) \div 3600

MinuteOf(t) == (t % 3600) \div 60

\* date.weekday(): Monday is 0, Sunday is 6
Weekday(d) == (d + 4) % 7

\* datetime.combine(date, time(hour, minute))
Combine(d, h, m) == d * DaySeconds + h * 3600 + m * 60

\* f"{int(hour):02d}:{int(minute):02d}"
FormatTime(h, m) == h * 60 + m

\* [int(x) for x in text.split(":")[:2]]
ParseHour(txt) == txt \div 60

ParseMinute(txt) == txt % 60

\* min_planned_datetime(base): base + timedelta(hours=1)
min_planned_datetime(base) == base + LeadHours * 3600

\* ---------------------------------------------------------- slot calculator
\* available_minutes with the working window closing one hour later
available_minutes_open_late(selected_date, hour, now_dt, earliest_dt) ==
    IF hour < OpenHour \/ hour > CloseHour + 1 THEN {}
    ELSE
      LET minutes0 == {0, HalfHour}
          onFloorDay == earliest_dt # None /\ selected_date = DateOf(earliest_dt)
          minutes1 == IF onFloorDay /\ hour = HourOf(earliest_dt)
                      THEN {m \in minutes0 : m >= MinuteOf(earliest_dt)} ELSE minutes0
          onToday == selected_date = DateOf(now_dt)
          minutes2 == IF onToday /\ hour = HourOf(now_dt)
                      THEN {m \in minutes1 : m >= MinuteOf(now_dt)} ELSE minutes1
      IN  IF onFloorDay /\ hour < HourOf(earliest_dt) THEN {}
          ELSE IF onToday /\ hour < HourOf(now_dt) THEN {}
          ELSE minutes2

\* available_minutes without the minute filter in the floor's own hour
available_minutes_floor_hour_only(selected_date, hour, now_dt, earliest_dt) ==
    IF hour < OpenHour \/ hour > CloseHour THEN {}
    ELSE
      LET minutes0 == {0, HalfHour}
          onFloorDay == earliest_dt # None /\ selected_date = DateOf(earliest_dt)
          onToday == selected_date = DateOf(now_dt)
          minutes2 == IF onToday /\ hour = HourOf(now_dt)
                      THEN {m \in minutes0 : m >= MinuteOf(now_dt)} ELSE minutes0
      IN  IF onFloorDay /\ hour < HourOf(earliest_dt) THEN {}
          ELSE IF onToday /\ hour < HourOf(now_dt) THEN {}
          ELSE minutes2

\* available_minutes(selected_date, hour, now_dt=, earliest_dt=); the result
\* list is held as a set.
available_minutes(selected_date, hour, now_dt, earliest_dt) ==
    IF hour < OpenHour \/ hour > CloseHour THEN {}
    ELSE
      LET minutes0 == {0, HalfHour}
          onFloorDay == earliest_dt # None /\ selected_date = DateOf(earliest_dt)
          minutes1 == IF onFloorDay /\ hour = HourOf(earliest_dt)
                      THEN {m \in minutes0 : m >= MinuteOf(earliest_dt)}
                      ELSE minutes0
          onToday == selected_date = DateOf(now_dt)
          minutes2 == IF onToday /\ hour = HourOf(now_dt)
                      THEN {m \in minutes1 : m >= MinuteOf(now_dt)}
                      ELSE minutes1
      IN  IF onFloorDay /\ hour < HourOf(earliest_dt) THEN {}
          ELSE IF onToday /\ hour < HourOf(now_dt) THEN {}
          ELSE minutes2

\* available_hours(selected_date, now_dt=, earliest_dt=): range(9, 17)
available_hours(selected_date, now_dt, earliest_dt) ==
    {h \in OpenHour..CloseHour :
        available_minutes(selected_date, h, now_dt, earliest_dt) # {}}

\* ------------------------------------------------------------------ actors
\* SUPERADMIN_ID (environment): always an admin and a superadmin
SUPERADMIN_ID == "sa"

\* rows of the admins table: main() inserts the superadmin; "a1" is an
\* ordinary admin added through admin_add
AdminRows == {[telegram_id |-> "sa", is_superadmin |-> TRUE],
              [telegram_id |-> "a1", is_superadmin |-> FALSE]}

\* "u1" files requests; "u2" is neither an owner nor an admin
Requesters == {"u1"}
Users == {"u1", "u2"}
\* callers of the approver handlers: an admin, the superadmin, a non-admin.
\* The superadmin differs from "a1" only in adm_delete and admin_clear_yes,
\* so the other approver handlers are called by DecisionCallers.
AdminCallers == {"a1", "sa", "u2"}
DecisionCallers == {"a1", "u2"}
Actors == Users \cup AdminCallers

is_admin_user(user_id) ==
    user_id = SUPERADMIN_ID \/ \E r \in AdminRows : r.telegram_id = user_id

is_super_admin_user(user_id) ==
    user_id = SUPERADMIN_ID
    \/ \E r \in AdminRows : r.telegram_id = user_id /\ r.is_superadmin

\* ------------------------------------------------------------------ inputs
\* the clock starts on Saturday (day 1) at 08:20:10
StartNow == Combine(1, 8, 20) + 10
TickSteps == {DaySeconds}
FormTickSteps == {40 * 60}
DateInputs == {1, 2, 3}
HourInputs == {8, 9}
MinuteInputs == {15, 30}
ReasonInputs == {"", " ", "late"}
SupplierInputs == {"", "bolt"}
TaskReason == "late"

\* Strip that keeps the white space
Strip_nothing(txt) == txt

\* str.strip() on the texts of ReasonInputs and SupplierInputs
Strip(txt) == IF txt = " " THEN "" ELSE txt

\* ------------------------------------------------------------------- state
VARIABLES
    now,        \* kyiv_now(): the wall clock
    ticks,      \* how often the clock has advanced (bounded by MaxTicks)
    requests,   \* the requests table: id -> row, for the ids that exist
    nextId,     \* the next primary key the table hands out
    fsm,        \* aiogram FSMContext of each actor: state and data
    last,       \* history: the most recent call that wrote the requests table
    probe,      \* slot calculator arguments and results (SpecSlots)
    tasks       \* handlers running as concurrent asyncio tasks (SpecConc)

vars == <<now, ticks, requests, nextId, fsm, last, probe, tasks>>

\* FSMContext after state.clear().  set_state/update_data keep the keys of
\* an earlier dialogue; every dialogue writes the keys it reads before it
\* reads them, so a dialogue's unused keys are held at their cleared value.
FsmClear == [st |-> "none", req_id |-> None, date |-> None, hour |-> None,
             time |-> None, min_plan_dt |-> None, reason |-> ""]

NoProbe == [kind |-> "none", date |-> None, hour |-> None,
            earliest_dt |-> None, result |-> {}]

NoCall == [op |-> "none", actor |-> NoId, id |-> None]

\* a task slot nobody uses; `snap` is the row session.get returned, `row` the
\* loaded object after the handler's assignments
TaskIds == 1..MaxTasks
IdleTask == [pc |-> "idle", op |-> "none", actor |-> NoId, id |-> None,
             snap |-> << >>, row |-> << >>]

Init ==
    /\ now = StartNow
    /\ ticks = 0
    /\ requests = << >>
    /\ nextId = 1
    /\ fsm = [a \in Actors |-> FsmClear]
    /\ last = NoCall
    /\ probe = NoProbe
    /\ tasks = [t \in TaskIds |-> IdleTask]

\* handler `op`, called by `a`, wrote request `i` to the table
Wrote(op, a, i) == last' = [op |-> op, actor |-> a, id |-> i]

InDialogue == {a \in Actors : fsm[a].st # "none"}

\* a dialogue may open for `a`
MayOpen(a) == fsm[a].st # "none" \/ Cardinality(InDialogue) < MaxDialogues

SetFsm(a, f) == fsm' = [fsm EXCEPT ![a] = f]

Exists(i) == i \in DOMAIN requests

\* session.commit() of the row `r` loaded as request `i`
Commit(i, r) == requests' = [requests EXCEPT ![i] = r]

\* session.delete(req); session.commit()
Delete(i) == requests' = [j \in DOMAIN requests \ {i} |-> requests[j]]

\* the handler answers the caller and changes nothing
Refuse == UNCHANGED <<requests, fsm, last>>

\* the handler clears the caller's dialogue and changes nothing else
RefuseAndClear(a) == SetFsm(a, FsmClear) /\ UNCHANGED <<requests, last>>

\* a dialogue step: only the caller's FSMContext changes
Step(a, f) == SetFsm(a, f) /\ UNCHANGED <<requests, last>>

\* ------------------------------------------------------------------- clock
Tick(s) ==
    /\ ticks < MaxTicks
    /\ now' = now + s
    /\ ticks' = ticks + 1
    /\ UNCHANGED <<requests, nextId, fsm, last, probe, tasks>>

\* ------------------------------------------------- main menu: leave a dialogue
handle_main_menu(a) ==
    /\ fsm[a].st # "none"
    /\ Step(a, FsmClear)
    /\ UNCHANGED <<now, ticks, nextId, probe, tasks>>

\* ------------------------------------------------------------ create flow
\* QueueForm.cargo_description: the last text step of the form (the earlier
\* text steps only collect the descriptive fields)
step_cargo_description(a) ==
    /\ fsm[a].st = "none"
    /\ MayOpen(a)
    /\ Step(a, [FsmClear EXCEPT !.st = "QueueForm.loading_type"])
    /\ UNCHANGED <<now, ticks, nextId, probe, tasks>>

step_loading(a) ==
    /\ fsm[a].st = "QueueForm.loading_type"
    /\ Step(a, [FsmClear EXCEPT !.st = "QueueForm.calendar",
                                !.min_plan_dt = min_planned_datetime(now)])
    /\ UNCHANGED <<now, ticks, nextId, probe, tasks>>

\* DayRefused without the weekday test
DayRefused_any_weekday(chosen, min_dt) ==
    \/ chosen < DateOf(now)
    \/ (min_dt # None /\ chosen < DateOf(min_dt))
    \/ available_hours(chosen, now, min_dt) = {}

\* the checks cal_day, user_edit_day and user_change_day share
DayRefused(chosen, min_dt) ==
    \/ chosen < DateOf(now)
    \/ (min_dt # None /\ chosen < DateOf(min_dt))
    \/ Weekday(chosen) = Sunday
    \/ available_hours(chosen, now, min_dt) = {}

cal_day(a, chosen) ==
    /\ fsm[a].st = "QueueForm.calendar"
    /\ IF DayRefused(chosen, fsm[a].min_plan_dt)
       THEN Refuse
       ELSE Step(a, [fsm[a] EXCEPT !.st = "QueueForm.hour", !.date = chosen])
    /\ UNCHANGED <<now, ticks, nextId, probe, tasks>>

hour_selected(a, hour) ==
    /\ fsm[a].st = "QueueForm.hour"
    /\ IF \/ fsm[a].date = None
          \/ hour \notin available_hours(fsm[a].date, now, fsm[a].min_plan_dt)
       THEN Refuse
       ELSE Step(a, [fsm[a] EXCEPT !.st = "QueueForm.minute", !.hour = hour])
    /\ UNCHANGED <<now, ticks, nextId, probe, tasks>>

\* NewRow that leaves the confirmed slot empty until an approver decides
NewRow_unconfirmed(user_id, chosen_date, txt, creation_time) ==
    [user_id |-> user_id, supplier |-> "acme", status |-> "new",
     planned_date |-> chosen_date, planned_time |-> txt,
     date |-> None, time |-> None,
     pending_date |-> None, pending_time |-> None, pending_reason |-> << >>,
     admin_id |-> NoId, completed_at |-> None,
     created_at |-> creation_time, updated_at |-> creation_time]

\* Request(...) as minute_selected builds it
NewRow(user_id, chosen_date, txt, creation_time) ==
    [user_id |-> user_id, supplier |-> "acme", status |-> "new",
     planned_date |-> chosen_date, planned_time |-> txt,
     date |-> chosen_date, time |-> txt,
     pending_date |-> None, pending_time |-> None, pending_reason |-> << >>,
     admin_id |-> NoId, completed_at |-> None,
     created_at |-> creation_time, updated_at |-> creation_time]

minute_selected(a, minute) ==
    /\ fsm[a].st = "QueueForm.minute"
    /\ nextId <= MaxReq
    /\ LET f == fsm[a]
           min_dt == IF f.min_plan_dt # None THEN f.min_plan_dt
                     ELSE min_planned_datetime(now)
           refused ==
               \/ f.date = None
               \/ f.date < DateOf(now)
               \/ f.hour = None
               \/ Combine(f.date, f.hour, minute) < min_dt
               \/ minute \notin available_minutes(f.date, f.hour, now, min_dt)
       IN  IF refused
           THEN Refuse /\ UNCHANGED nextId
           ELSE /\ requests' = [j \in DOMAIN requests \cup {nextId} |->
                                  IF j = nextId
                                  THEN NewRow(a, f.date, FormatTime(f.hour, minute), now)
                                  ELSE requests[j]]
                /\ nextId' = nextId + 1
                /\ SetFsm(a, FsmClear)
                /\ Wrote("minute_selected", a, nextId)
    /\ UNCHANGED <<now, ticks, probe, tasks>>

\* merge_pending_reason(existing, prefix, reason): the text is held as the
\* sequence of its "<prefix>: <reason>" lines
merge_pending_reason(existing, prefix, reason) ==
    IF Strip(reason) = "" THEN existing
    ELSE Append(existing, <<prefix, Strip(reason)>>)

\* ------------------------------------------------------- approver: approve
adm_ok(a, i) ==
    /\ IF Exists(i)
       THEN /\ Commit(i, [requests[i] EXCEPT !.status = "approved",
                                             !.admin_id = a,
                                             !.updated_at = now])
            /\ Wrote("adm_ok", a, i)
            /\ UNCHANGED fsm
       ELSE Refuse                               \* AttributeError on None
    /\ UNCHANGED <<now, ticks, nextId, probe, tasks>>

\* ------------------------------------------------------- approver: reject
adm_rej(a, i) ==
    /\ MayOpen(a)
    /\ Step(a, [FsmClear EXCEPT !.st = "AdminRejectForm.reason", !.req_id = i])
    /\ UNCHANGED <<now, ticks, nextId, probe, tasks>>

\* adm_rej_reason: its assignments to the loaded row
adm_rej_reason_row(a, req) ==
    [req EXCEPT !.status = "rejected", !.admin_id = a, !.updated_at = now]

adm_rej_reason(a, text) ==
    /\ fsm[a].st = "AdminRejectForm.reason"
    /\ LET i == fsm[a].req_id
       IN  IF Strip(text) = "" THEN Refuse
           ELSE IF ~Exists(i) THEN RefuseAndClear(a)
           ELSE /\ Commit(i, adm_rej_reason_row(a, requests[i]))
                /\ SetFsm(a, FsmClear)
                /\ Wrote("adm_rej_reason", a, i)
    /\ UNCHANGED <<now, ticks, nextId, probe, tasks>>

\* ------------------------------------------------------ finish and delete
\* CanComplete without the test of completed_at
CanComplete_again(i) ==
    /\ Exists(i)
    /\ requests[i].status = "approved"

\* CanComplete without the test of the status
CanComplete_any_status(i) ==
    /\ Exists(i)
    /\ requests[i].completed_at = None

\* complete_request: the guard of line 3838
CanComplete(i) ==
    /\ Exists(i)
    /\ requests[i].completed_at = None
    /\ requests[i].status = "approved"

\* Completed that also marks the row in its status
Completed_in_status(r) ==
    [r EXCEPT !.completed_at = now, !.updated_at = now, !.status = "completed"]

\* complete_request: the row it commits
Completed(r) == [r EXCEPT !.completed_at = now, !.updated_at = now]

adm_finish(a, i) ==
    /\ IF is_admin_user(a) /\ CanComplete(i)
       THEN /\ Commit(i, Completed(requests[i]))
            /\ Wrote("adm_finish", a, i)
            /\ UNCHANGED fsm
       ELSE Refuse
    /\ UNCHANGED <<now, ticks, nextId, probe, tasks>>

\* adm_delete that lets every admin remove a new request
adm_delete_by_any_admin(a, i) ==
    /\ IF ~Exists(i) \/ ~is_admin_user(a)
       THEN Refuse
       ELSE /\ Delete(i)
            /\ Wrote("adm_delete", a, i)
            /\ UNCHANGED fsm
    /\ UNCHANGED <<now, ticks, nextId, probe, tasks>>

adm_delete(a, i) ==
    /\ IF \/ ~Exists(i)
          \/ ~is_admin_user(a)
          \/ (~is_super_admin_user(a) /\ requests[i].status = "new")
       THEN Refuse
       ELSE /\ Delete(i)
            /\ Wrote("adm_delete", a, i)
            /\ UNCHANGED fsm
    /\ UNCHANGED <<now, ticks, nextId, probe, tasks>>

admin_clear_yes(a) ==
    /\ IF is_super_admin_user(a)
       THEN /\ requests' = << >>
            /\ Wrote("admin_clear_yes", a, None)
            /\ UNCHANGED fsm
       ELSE Refuse
    /\ UNCHANGED <<now, ticks, nextId, probe, tasks>>

\* ----------------------------------------- approver: propose another slot
adm_change(a, i) ==
    /\ MayOpen(a)
    /\ Step(a, [FsmClear EXCEPT !.st = "AdminChangeForm.calendar", !.req_id = i])
    /\ UNCHANGED <<now, ticks, nextId, probe, tasks>>

adm_cal_day(a, chosen) ==
    /\ fsm[a].st = "AdminChangeForm.calendar"
    /\ IF chosen < DateOf(now) \/ available_hours(chosen, now, None) = {}
       THEN Refuse
       ELSE Step(a, [fsm[a] EXCEPT !.st = "AdminChangeForm.hour", !.date = chosen])
    /\ UNCHANGED <<now, ticks, nextId, probe, tasks>>

adm_hour(a, hour) ==
    /\ fsm[a].st = "AdminChangeForm.hour"
    /\ IF fsm[a].date = None \/ hour \notin available_hours(fsm[a].date, now, None)
       THEN Refuse
       ELSE Step(a, [fsm[a] EXCEPT !.st = "AdminChangeForm.minute", !.hour = hour])
    /\ UNCHANGED <<now, ticks, nextId, probe, tasks>>

adm_min(a, minute) ==
    /\ fsm[a].st = "AdminChangeForm.minute"
    /\ LET f == fsm[a]
       IN  IF \/ f.date < DateOf(now)
              \/ f.hour = None
              \/ minute \notin available_minutes(f.date, f.hour, now, None)
           THEN Refuse
           ELSE Step(a, [f EXCEPT !.st = "AdminChangeForm.reason",
                                  !.time = FormatTime(f.hour, minute)])
    /\ UNCHANGED <<now, ticks, nextId, probe, tasks>>

adm_change_reason(a, text) ==
    /\ fsm[a].st = "AdminChangeForm.reason"
    /\ LET f == fsm[a]
           i == f.req_id
       IN  IF Strip(text) = "" THEN Refuse
           ELSE IF ~Exists(i) \/ f.date = None \/ f.time = None THEN RefuseAndClear(a)
           ELSE /\ Commit(i, [requests[i] EXCEPT
                                !.planned_date = f.date,
                                !.planned_time = f.time,
                                !.pending_date = None,
                                !.pending_time = None,
                                !.pending_reason = merge_pending_reason(<< >>, "Admin", text),
                                !.status = "pending_user_confirmation",
                                !.admin_id = a,
                                !.updated_at = now])
                /\ SetFsm(a, FsmClear)
                /\ Wrote("adm_change_reason", a, i)
    /\ UNCHANGED <<now, ticks, nextId, probe, tasks>>

\* ------------------------------- requester: answer the approver's proposal
\* UserMayDecide without the test of the owner
UserMayDecide_anyone(a, i, allowed_statuses) ==
    /\ Exists(i)
    /\ requests[i].status \in allowed_statuses

\* UserMayDecide without the test of the status
UserMayDecide_in_any_status(a, i, allowed_statuses) ==
    /\ Exists(i)
    /\ requests[i].user_id = a

\* _load_request_for_user_decision, and the same test inlined in the handlers
UserMayDecide(a, i, allowed_statuses) ==
    /\ Exists(i)
    /\ requests[i].user_id = a
    /\ requests[i].status \in allowed_statuses

\* user_change_confirm that approves without taking over the planned slot
user_change_confirm_keeps_date(a, i) ==
    /\ IF /\ UserMayDecide(a, i, {"pending_user_confirmation", "pending_user_final"})
          /\ requests[i].planned_date # None
          /\ requests[i].planned_time # None
       THEN /\ Commit(i, [requests[i] EXCEPT
                            !.status = "approved",
                            !.pending_date = None,
                            !.pending_time = None,
                            !.pending_reason = << >>,
                            !.updated_at = now])
            /\ Wrote("user_change_confirm", a, i)
            /\ UNCHANGED fsm
       ELSE Refuse
    /\ UNCHANGED <<now, ticks, nextId, probe, tasks>>

user_change_confirm(a, i) ==
    /\ IF /\ UserMayDecide(a, i, {"pending_user_confirmation", "pending_user_final"})
          /\ requests[i].planned_date # None
          /\ requests[i].planned_time # None
       THEN /\ Commit(i, [requests[i] EXCEPT
                            !.date = requests[i].planned_date,
                            !.time = requests[i].planned_time,
                            !.status = "approved",
                            !.pending_date = None,
                            !.pending_time = None,
                            !.pending_reason = << >>,
                            !.updated_at = now])
            /\ Wrote("user_change_confirm", a, i)
            /\ UNCHANGED fsm
       ELSE Refuse
    /\ UNCHANGED <<now, ticks, nextId, probe, tasks>>

user_change_delete(a, i) ==
    /\ MayOpen(a)
    /\ IF UserMayDecide(a, i, {"pending_user_confirmation", "pending_user_final"})
       THEN Step(a, [FsmClear EXCEPT !.st = "UserChangeResponse.delete_reason",
                                     !.req_id = i])
       ELSE Refuse
    /\ UNCHANGED <<now, ticks, nextId, probe, tasks>>

user_change_delete_reason(a, text) ==
    /\ fsm[a].st = "UserChangeResponse.delete_reason"
    /\ LET i == fsm[a].req_id
       IN  IF Strip(text) = "" THEN Refuse
           ELSE IF ~UserMayDecide(a, i, {"pending_user_confirmation", "pending_user_final"})
           THEN RefuseAndClear(a)
           ELSE /\ Commit(i, [requests[i] EXCEPT
                                !.status = "rejected",
                                !.pending_date = None,
                                !.pending_time = None,
                                !.pending_reason =
                                    merge_pending_reason(@, "User cancel", text),
                                !.updated_at = now])
                /\ SetFsm(a, FsmClear)
                /\ Wrote("user_change_delete_reason", a, i)
    /\ UNCHANGED <<now, ticks, nextId, probe, tasks>>

user_change_decline(a, i) ==
    /\ MayOpen(a)
    /\ IF UserMayDecide(a, i, {"pending_user_confirmation"})
       THEN Step(a, [FsmClear EXCEPT !.st = "UserChangeResponse.decline_reason",
                                     !.req_id = i])
       ELSE Refuse
    /\ UNCHANGED <<now, ticks, nextId, probe, tasks>>

user_change_decline_reason(a, text) ==
    /\ fsm[a].st = "UserChangeResponse.decline_reason"
    /\ LET i == fsm[a].req_id
       IN  IF Strip(text) = "" THEN Refuse
           ELSE IF ~UserMayDecide(a, i, {"pending_user_confirmation"})
           THEN RefuseAndClear(a)
           ELSE /\ Commit(i, [requests[i] EXCEPT
                                !.status = "pending_admin_decision",
                                !.pending_reason = merge_pending_reason(@, "User", text),
                                !.updated_at = now])
                /\ SetFsm(a, FsmClear)
                /\ Wrote("user_change_decline_reason", a, i)
    /\ UNCHANGED <<now, ticks, nextId, probe, tasks>>

user_change_propose(a, i) ==
    /\ MayOpen(a)
    /\ IF UserMayDecide(a, i, {"pending_user_confirmation"})
       THEN Step(a, [FsmClear EXCEPT
                       !.st = "UserChangeResponse.propose_reason",
                       !.req_id = i,
                       !.min_plan_dt = min_planned_datetime(requests[i].created_at)])
       ELSE Refuse
    /\ UNCHANGED <<now, ticks, nextId, probe, tasks>>

user_change_propose_reason(a, text) ==
    /\ fsm[a].st = "UserChangeResponse.propose_reason"
    /\ IF Strip(text) = "" THEN Refuse
       ELSE Step(a, [fsm[a] EXCEPT !.st = "UserChangeResponse.calendar",
                                   !.reason = Strip(text)])
    /\ UNCHANGED <<now, ticks, nextId, probe, tasks>>

user_change_day(a, chosen) ==
    /\ fsm[a].st = "UserChangeResponse.calendar"
    /\ IF DayRefused(chosen, fsm[a].min_plan_dt)
       THEN Refuse
       ELSE Step(a, [fsm[a] EXCEPT !.st = "UserChangeResponse.hour", !.date = chosen])
    /\ UNCHANGED <<now, ticks, nextId, probe, tasks>>

user_change_hour(a, hour) ==
    /\ fsm[a].st = "UserChangeResponse.hour"
    /\ IF \/ fsm[a].date = None
          \/ hour \notin available_hours(fsm[a].date, now, fsm[a].min_plan_dt)
       THEN Refuse
       ELSE Step(a, [fsm[a] EXCEPT !.st = "UserChangeResponse.minute", !.hour = hour])
    /\ UNCHANGED <<now, ticks, nextId, probe, tasks>>

user_change_minute(a, minute) ==
    /\ fsm[a].st = "UserChangeResponse.minute"
    /\ LET f == fsm[a]
           i == f.req_id
           min_dt == f.min_plan_dt
       IN  IF \/ f.date = None
              \/ f.date < DateOf(now)
              \/ f.hour = None
              \/ (min_dt # None /\ f.date < DateOf(min_dt))
              \/ minute \notin available_minutes(f.date, f.hour, now, min_dt)
           THEN Refuse
           ELSE IF ~UserMayDecide(a, i, {"pending_user_confirmation"})
           THEN RefuseAndClear(a)
           ELSE /\ Commit(i, [requests[i] EXCEPT
                                !.pending_date = f.date,
                                !.pending_time = FormatTime(f.hour, minute),
                                !.status = "pending_admin_decision",
                                !.pending_reason = merge_pending_reason(@, "User", f.reason),
                                !.updated_at = now])
                /\ SetFsm(a, FsmClear)
                /\ Wrote("user_change_minute", a, i)
    /\ UNCHANGED <<now, ticks, nextId, probe, tasks>>

\* ------------------------------ approver: decide on the requester's answer
\* adm_keep_client_time: the statuses it accepts
adm_keep_client_time_ok(req) ==
    req.status \in {"pending_admin_decision", "pending_user_confirmation",
                    "pending_user_final"}

\* adm_keep_client_time_row that leaves the proposed slot as the planned one
adm_keep_client_time_row_keeps_proposal(a, req) ==
    [req EXCEPT !.pending_date = None,
                !.pending_time = None,
                !.pending_reason = << >>,
                !.status = "approved",
                !.admin_id = a,
                !.updated_at = now]

\* adm_keep_client_time: its assignments to the loaded row
adm_keep_client_time_row(a, req) ==
    [req EXCEPT !.planned_date = req.date,
                !.planned_time = req.time,
                !.pending_date = None,
                !.pending_time = None,
                !.pending_reason = << >>,
                !.status = "approved",
                !.admin_id = a,
                !.updated_at = now]

adm_keep_client_time(a, i) ==
    /\ IF is_admin_user(a) /\ Exists(i) /\ adm_keep_client_time_ok(requests[i])
       THEN /\ Commit(i, adm_keep_client_time_row(a, requests[i]))
            /\ Wrote("adm_keep_client_time", a, i)
            /\ UNCHANGED fsm
       ELSE Refuse
    /\ UNCHANGED <<now, ticks, nextId, probe, tasks>>

\* adm_keep_admin_time that asks for an ordinary confirmation again
adm_keep_admin_time_asks_again(a, i) ==
    /\ IF /\ is_admin_user(a)
          /\ Exists(i)
          /\ requests[i].status \in {"pending_admin_decision",
                                     "pending_user_confirmation"}
       THEN /\ Commit(i, [requests[i] EXCEPT
                            !.status = "pending_user_confirmation",
                            !.pending_reason = merge_pending_reason(@, "Admin", "kept"),
                            !.updated_at = now])
            /\ Wrote("adm_keep_admin_time", a, i)
            /\ UNCHANGED fsm
       ELSE Refuse
    /\ UNCHANGED <<now, ticks, nextId, probe, tasks>>

adm_keep_admin_time(a, i) ==
    /\ IF /\ is_admin_user(a)
          /\ Exists(i)
          /\ requests[i].status \in {"pending_admin_decision",
                                     "pending_user_confirmation"}
       THEN /\ Commit(i, [requests[i] EXCEPT
                            !.status = "pending_user_final",
                            !.pending_reason = merge_pending_reason(@, "Admin", "kept"),
                            !.updated_at = now])
            /\ Wrote("adm_keep_admin_time", a, i)
            /\ UNCHANGED fsm
       ELSE Refuse
    /\ UNCHANGED <<now, ticks, nextId, probe, tasks>>

\* adm_accept_user_proposal_ok without the test of the pending slot
adm_accept_user_proposal_ok_without_slot(req) ==
    req.status = "pending_admin_decision"

\* adm_accept_user_proposal: the rows it accepts
adm_accept_user_proposal_ok(req) ==
    /\ req.status = "pending_admin_decision"
    /\ req.pending_date # None
    /\ req.pending_time # None

\* adm_accept_user_proposal: its assignments to the loaded row
adm_accept_user_proposal_row(a, req) ==
    [req EXCEPT !.planned_date = req.pending_date,
                !.planned_time = req.pending_time,
                !.date = req.pending_date,
                !.time = req.pending_time,
                !.pending_date = None,
                !.pending_time = None,
                !.pending_reason = << >>,
                !.status = "approved",
                !.admin_id = a,
                !.updated_at = now]

adm_accept_user_proposal(a, i) ==
    /\ IF is_admin_user(a) /\ Exists(i) /\ adm_accept_user_proposal_ok(requests[i])
       THEN /\ Commit(i, adm_accept_user_proposal_row(a, requests[i]))
            /\ Wrote("adm_accept_user_proposal", a, i)
            /\ UNCHANGED fsm
       ELSE Refuse
    /\ UNCHANGED <<now, ticks, nextId, probe, tasks>>

adm_reject_user_proposal(a, i) ==
    /\ MayOpen(a)
    /\ IF /\ is_admin_user(a)
          /\ Exists(i)
          /\ requests[i].status = "pending_admin_decision"
       THEN Step(a, [FsmClear EXCEPT !.st = "AdminUserProposalReject.reason",
                                     !.req_id = i])
       ELSE Refuse
    /\ UNCHANGED <<now, ticks, nextId, probe, tasks>>

\* adm_reject_user_proposal_reason: its assignments to the loaded row
adm_reject_user_proposal_reason_row(a, text, req) ==
    [req EXCEPT !.pending_date = None,
                !.pending_time = None,
                !.status = "pending_user_final",
                !.pending_reason = merge_pending_reason(@, "Admin", text),
                !.admin_id = a,
                !.updated_at = now]

adm_reject_user_proposal_reason(a, text) ==
    /\ fsm[a].st = "AdminUserProposalReject.reason"
    /\ LET i == fsm[a].req_id
       IN  IF Strip(text) = "" THEN Refuse
           ELSE IF ~Exists(i) \/ requests[i].status # "pending_admin_decision"
           THEN RefuseAndClear(a)
           ELSE /\ Commit(i, adm_reject_user_proposal_reason_row(a, text, requests[i]))
                /\ SetFsm(a, FsmClear)
                /\ Wrote("adm_reject_user_proposal_reason", a, i)
    /\ UNCHANGED <<now, ticks, nextId, probe, tasks>>

\* ------------------------------------- requester: edit or delete a request
\* get_user_modify_block_reason that lets a rejected request through
get_user_modify_block_reason_not_rejected(req) ==
    \/ req.status = "deleted_by_user"
    \/ req.completed_at # None

get_user_modify_block_reason(req) ==
    \/ req.status = "deleted_by_user"
    \/ req.completed_at # None
    \/ req.status = "rejected"

\* get_user_recent_requests: the ids of the caller's RecentLimit newest rows
get_user_recent_requests(user_id) ==
    LET mine == {i \in DOMAIN requests : requests[i].user_id = user_id}
    IN  {i \in mine : Cardinality({j \in mine : j > i}) < RecentLimit}

\* the tests my_delete and my_edit make before they ask for the reason
MayManage(a, i) ==
    /\ Exists(i)
    /\ requests[i].user_id = a
    /\ i \in get_user_recent_requests(a)
    /\ ~get_user_modify_block_reason(requests[i])

\* _load_request_for_edit, and the same test inlined in the reason handlers
LoadedForEdit(a, i) ==
    /\ Exists(i)
    /\ requests[i].user_id = a
    /\ ~get_user_modify_block_reason(requests[i])

my_delete(a, i) ==
    /\ MayOpen(a)
    /\ IF MayManage(a, i)
       THEN Step(a, [FsmClear EXCEPT !.st = "UserDeleteForm.reason", !.req_id = i])
       ELSE Refuse
    /\ UNCHANGED <<now, ticks, nextId, probe, tasks>>

my_delete_reason(a, text) ==
    /\ fsm[a].st = "UserDeleteForm.reason"
    /\ LET i == fsm[a].req_id
       IN  IF Strip(text) = "" THEN Refuse
           ELSE IF ~LoadedForEdit(a, i) THEN RefuseAndClear(a)
           ELSE /\ Delete(i)
                /\ SetFsm(a, FsmClear)
                /\ Wrote("my_delete_reason", a, i)
    /\ UNCHANGED <<now, ticks, nextId, probe, tasks>>

my_edit(a, i) ==
    /\ MayOpen(a)
    /\ IF MayManage(a, i)
       THEN Step(a, [FsmClear EXCEPT !.st = "UserEditForm.reason", !.req_id = i])
       ELSE Refuse
    /\ UNCHANGED <<now, ticks, nextId, probe, tasks>>

my_edit_reason(a, text) ==
    /\ fsm[a].st = "UserEditForm.reason"
    /\ IF Strip(text) = "" THEN Refuse
       ELSE IF ~LoadedForEdit(a, fsm[a].req_id) THEN RefuseAndClear(a)
       ELSE Step(a, [fsm[a] EXCEPT !.st = "UserEditForm.field_choice",
                                   !.reason = Strip(text)])
    /\ UNCHANGED <<now, ticks, nextId, probe, tasks>>

\* "supplier" stands for the four text fields, which share one handler shape
user_edit_field_choice(a, choice) ==
    /\ fsm[a].st = "UserEditForm.field_choice"
    /\ LET i == fsm[a].req_id
       IN  IF choice = "supplier"
           THEN Step(a, [fsm[a] EXCEPT !.st = "UserEditForm.supplier"])
           ELSE IF ~LoadedForEdit(a, i) THEN RefuseAndClear(a)
           ELSE Step(a, [fsm[a] EXCEPT
                           !.st = "UserEditForm.calendar",
                           !.min_plan_dt = min_planned_datetime(requests[i].created_at)])
    /\ UNCHANGED <<now, ticks, nextId, probe, tasks>>

\* finalize_user_edit_update that leaves the approver assigned
finalize_user_edit_update_keeps_admin(req) ==
    [req EXCEPT !.status = "new", !.updated_at = now]

\* finalize_user_edit_update: what it sets on the edited row before the commit
finalize_user_edit_update(req) ==
    [req EXCEPT !.status = "new", !.admin_id = NoId, !.updated_at = now]

user_edit_supplier(a, text) ==
    /\ fsm[a].st = "UserEditForm.supplier"
    /\ LET i == fsm[a].req_id
       IN  IF Strip(text) = "" THEN Refuse
           ELSE IF ~LoadedForEdit(a, i) THEN RefuseAndClear(a)
           ELSE /\ Commit(i, finalize_user_edit_update(
                                [requests[i] EXCEPT !.supplier = Strip(text)]))
                /\ SetFsm(a, FsmClear)
                /\ Wrote("user_edit_supplier", a, i)
    /\ UNCHANGED <<now, ticks, nextId, probe, tasks>>

user_edit_day(a, chosen) ==
    /\ fsm[a].st = "UserEditForm.calendar"
    /\ IF DayRefused(chosen, fsm[a].min_plan_dt)
       THEN Refuse
       ELSE Step(a, [fsm[a] EXCEPT !.st = "UserEditForm.hour", !.date = chosen])
    /\ UNCHANGED <<now, ticks, nextId, probe, tasks>>

user_edit_hour(a, hour) ==
    /\ fsm[a].st = "UserEditForm.hour"
    /\ IF \/ fsm[a].date = None
          \/ hour \notin available_hours(fsm[a].date, now, fsm[a].min_plan_dt)
       THEN Refuse
       ELSE Step(a, [fsm[a] EXCEPT !.st = "UserEditForm.minute", !.hour = hour])
    /\ UNCHANGED <<now, ticks, nextId, probe, tasks>>

user_edit_minute(a, minute) ==
    /\ fsm[a].st = "UserEditForm.minute"
    /\ LET f == fsm[a]
           i == f.req_id
           min_dt == f.min_plan_dt
       IN  IF \/ f.date = None
              \/ f.date < DateOf(now)
              \/ (min_dt # None /\ f.date < DateOf(min_dt))
              \/ f.hour = None
              \/ minute \notin available_minutes(f.date, f.hour, now, min_dt)
           THEN Refuse
           ELSE IF ~LoadedForEdit(a, i) THEN RefuseAndClear(a)
           ELSE IF Combine(f.date, f.hour, minute) <
                     (IF min_dt # None THEN min_dt
                      ELSE min_planned_datetime(requests[i].created_at))
           THEN Refuse
           ELSE /\ Commit(i, finalize_user_edit_update(
                                [requests[i] EXCEPT
                                   !.date = f.date,
                                   !.time = FormatTime(f.hour, minute),
                                   !.planned_date = f.date,
                                   !.planned_time = FormatTime(f.hour, minute)]))
                /\ SetFsm(a, FsmClear)
                /\ Wrote("user_edit_minute", a, i)
    /\ UNCHANGED <<now, ticks, nextId, probe, tasks>>

\* ----------------------------------------------------------------- sweeper
get_confirmed_datetime(req) ==
    IF req.date = None \/ req.time = None THEN None
    ELSE Combine(req.date, ParseHour(req.time), ParseMinute(req.time))

\* close_after counted from the last update even when a slot is confirmed
close_after_from_update(req) ==
    (IF req.updated_at # None THEN req.updated_at ELSE req.created_at)
        + GraceHours * 3600

\* the instant after which _auto_close_tick completes the row
close_after(req) ==
    IF get_confirmed_datetime(req) # None
    THEN get_confirmed_datetime(req) + GraceHours * 3600
    ELSE (IF req.updated_at # None THEN req.updated_at ELSE req.created_at)
           + GraceHours * 3600

\* the rows one pass of the sweeper completes
Overdue == {i \in DOMAIN requests : CanComplete(i) /\ now >= close_after(requests[i])}

_auto_close_tick ==
    /\ Overdue # {}
    /\ requests' = [i \in DOMAIN requests |->
                      IF i \in Overdue THEN Completed(requests[i]) ELSE requests[i]]
    /\ Wrote("_auto_close_tick", "sweeper", None)
    /\ UNCHANGED <<now, ticks, nextId, fsm, probe, tasks>>

\* ------------------------------------------------------ the sequential bot
ReqIds == 1..MaxReq
EditChoices == {"supplier", "datetime"}

CreateNext ==
    \/ \E a \in Requesters : step_cargo_description(a)
    \/ \E a \in Requesters : step_loading(a)
    \/ \E a \in Requesters, d \in DateInputs : cal_day(a, d)
    \/ \E a \in Requesters, h \in HourInputs : hour_selected(a, h)
    \/ \E a \in Requesters, m \in MinuteInputs : minute_selected(a, m)

ApproverNext ==
    \/ \E a \in DecisionCallers, i \in ReqIds : adm_ok(a, i)
    \/ \E a \in DecisionCallers, i \in ReqIds : adm_rej(a, i)
    \/ \E a \in DecisionCallers, t \in ReasonInputs : adm_rej_reason(a, t)
    \/ \E a \in DecisionCallers, i \in ReqIds : adm_finish(a, i)
    \/ \E a \in AdminCallers, i \in ReqIds : adm_delete(a, i)
    \/ \E a \in AdminCallers : admin_clear_yes(a)
    \/ \E a \in DecisionCallers, i \in ReqIds : adm_change(a, i)
    \/ \E a \in DecisionCallers, d \in DateInputs : adm_cal_day(a, d)
    \/ \E a \in DecisionCallers, h \in HourInputs : adm_hour(a, h)
    \/ \E a \in DecisionCallers, m \in MinuteInputs : adm_min(a, m)
    \/ \E a \in DecisionCallers, t \in ReasonInputs : adm_change_reason(a, t)
    \/ \E a \in DecisionCallers, i \in ReqIds : adm_keep_client_time(a, i)
    \/ \E a \in DecisionCallers, i \in ReqIds : adm_keep_admin_time(a, i)
    \/ \E a \in DecisionCallers, i \in ReqIds : adm_accept_user_proposal(a, i)
    \/ \E a \in DecisionCallers, i \in ReqIds : adm_reject_user_proposal(a, i)
    \/ \E a \in DecisionCallers, t \in ReasonInputs : adm_reject_user_proposal_reason(a, t)

RequesterNext ==
    \/ \E a \in Users, i \in ReqIds : user_change_confirm(a, i)
    \/ \E a \in Users, i \in ReqIds : user_change_delete(a, i)
    \/ \E a \in Users, t \in ReasonInputs : user_change_delete_reason(a, t)
    \/ \E a \in Users, i \in ReqIds : user_change_decline(a, i)
    \/ \E a \in Users, t \in ReasonInputs : user_change_decline_reason(a, t)
    \/ \E a \in Users, i \in ReqIds : user_change_propose(a, i)
    \/ \E a \in Users, t \in ReasonInputs : user_change_propose_reason(a, t)
    \/ \E a \in Users, d \in DateInputs : user_change_day(a, d)
    \/ \E a \in Users, h \in HourInputs : user_change_hour(a, h)
    \/ \E a \in Users, m \in MinuteInputs : user_change_minute(a, m)
    \/ \E a \in Users, i \in ReqIds : my_delete(a, i)
    \/ \E a \in Users, t \in ReasonInputs : my_delete_reason(a, t)
    \/ \E a \in Users, i \in ReqIds : my_edit(a, i)
    \/ \E a \in Users, t \in ReasonInputs : my_edit_reason(a, t)
    \/ \E a \in Users, c \in EditChoices : user_edit_field_choice(a, c)
    \/ \E a \in Users, t \in SupplierInputs : user_edit_supplier(a, t)
    \/ \E a \in Users, d \in DateInputs : user_edit_day(a, d)
    \/ \E a \in Users, h \in HourInputs : user_edit_hour(a, h)
    \/ \E a \in Users, m \in MinuteInputs : user_edit_minute(a, m)

\* the handlers, called one after another at one instant of the clock
Next ==
    \/ \E a \in Actors : handle_main_menu(a)
    \/ CreateNext
    \/ ApproverNext
    \/ RequesterNext

Spec == Init /\ [][Next]_vars

\* the handlers and the sweeper while the clock advances
ClockNext ==
    \/ \E s \in TickSteps : Tick(s)
    \/ _auto_close_tick
    \/ Next

SpecClock == Init /\ [][ClockNext]_vars

\* --------------------------------------------- the slot calculator alone
\* Friday to Monday; hours around both ends of the working window; clocks
\* and floors before, inside and after the window of Saturday and Monday
ProbeDates == 0..3
ProbeHours == {8, 9, 10, 16, 17}
ProbeNows == {StartNow, Combine(1, 9, 40), Combine(1, 17, 5)}
ProbeFloors == {None, min_planned_datetime(StartNow), Combine(1, 10, 40),
                Combine(3, 9, 30)}

InitSlots ==
    /\ now \in ProbeNows
    /\ ticks = 0
    /\ requests = << >>
    /\ nextId = 1
    /\ fsm = [a \in Actors |-> FsmClear]
    /\ last = NoCall
    /\ tasks = [t \in TaskIds |-> IdleTask]
    /\ probe \in [kind : {"args"}, date : ProbeDates, hour : ProbeHours,
                  earliest_dt : ProbeFloors, result : {{}}]

\* a handler calls available_minutes(date, hour, earliest_dt=floor)
call_available_minutes ==
    /\ probe.kind = "args"
    /\ probe' = [probe EXCEPT
                   !.kind = "minutes",
                   !.result = available_minutes(probe.date, probe.hour, now,
                                                probe.earliest_dt)]
    /\ UNCHANGED <<now, ticks, requests, nextId, fsm, last, tasks>>

\* a handler calls available_hours(date, earliest_dt=floor)
call_available_hours ==
    /\ probe.kind = "args"
    /\ probe' = [probe EXCEPT
                   !.kind = "hours",
                   !.result = available_hours(probe.date, now, probe.earliest_dt)]
    /\ UNCHANGED <<now, ticks, requests, nextId, fsm, last, tasks>>

SlotsNext == call_available_minutes \/ call_available_hours

SpecSlots == InitSlots /\ [][SlotsNext]_vars

\* ------------------------------------ approver decisions as concurrent tasks
\* Dispatcher.start_polling handles every update in an asyncio task of its
\* own.  A decision handler awaits session.get, tests and assigns the loaded
\* object without yielding, and awaits session.commit: tasks interleave
\* between the load and the commit.
DecisionOps == {"adm_accept_user_proposal", "adm_keep_client_time",
                "adm_reject_user_proposal_reason", "adm_rej_reason"}

\* the dialogue state a message handler is registered for
DialogueOf(op) ==
    CASE op = "adm_reject_user_proposal_reason" -> "AdminUserProposalReject.reason"
      [] op = "adm_rej_reason" -> "AdminRejectForm.reason"
      [] OTHER -> "none"

\* the tests the handler makes on the caller and on the row it loaded
decision_ok(op, a, req) ==
    CASE op = "adm_accept_user_proposal" ->
             is_admin_user(a) /\ adm_accept_user_proposal_ok(req)
      [] op = "adm_keep_client_time" ->
             is_admin_user(a) /\ adm_keep_client_time_ok(req)
      [] op = "adm_reject_user_proposal_reason" ->
             req.status = "pending_admin_decision"
      [] op = "adm_rej_reason" -> TRUE

\* the loaded object after the handler's assignments
decision_row(op, a, req) ==
    CASE op = "adm_accept_user_proposal" -> adm_accept_user_proposal_row(a, req)
      [] op = "adm_keep_client_time" -> adm_keep_client_time_row(a, req)
      [] op = "adm_reject_user_proposal_reason" ->
             adm_reject_user_proposal_reason_row(a, TaskReason, req)
      [] op = "adm_rej_reason" -> adm_rej_reason_row(a, req)

AllIdle == \A t \in TaskIds : tasks[t].pc = "idle"

\* await session.get(Request, req_id), then the handler's tests and assignments
task_load(t, op, a, i) ==
    /\ tasks[t].pc = "idle"
    /\ \A u \in TaskIds : u < t => tasks[u].pc # "idle"
    /\ \A u \in TaskIds : tasks[u].pc = "idle" \/ tasks[u].actor # a
    /\ Exists(i)
    /\ DialogueOf(op) # "none" => fsm[a].st = DialogueOf(op) /\ fsm[a].req_id = i
    /\ IF decision_ok(op, a, requests[i])
       THEN /\ tasks' = [tasks EXCEPT ![t] =
                           [pc |-> "loaded", op |-> op, actor |-> a, id |-> i,
                            snap |-> requests[i],
                            row |-> decision_row(op, a, requests[i])]]
            /\ UNCHANGED fsm
       ELSE /\ tasks' = [tasks EXCEPT ![t] =
                           [pc |-> "refused", op |-> op, actor |-> a, id |-> i,
                            snap |-> requests[i], row |-> requests[i]]]
            /\ IF DialogueOf(op) # "none" THEN SetFsm(a, FsmClear) ELSE UNCHANGED fsm
    /\ UNCHANGED <<now, ticks, requests, nextId, last, probe>>

\* the UPDATE that session.commit() flushes: the columns whose value the
\* handler changed on the loaded object, written to the stored row
Flushed(stored, snap, row) ==
    [c \in DOMAIN stored |-> IF row[c] # snap[c] THEN row[c] ELSE stored[c]]

\* await session.commit(), then the rest of the handler
task_commit(t) ==
    /\ tasks[t].pc = "loaded"
    /\ LET k == tasks[t]
       IN  /\ IF Exists(k.id)
              THEN Commit(k.id, Flushed(requests[k.id], k.snap, k.row))
              ELSE UNCHANGED requests
           /\ IF DialogueOf(k.op) # "none"
              THEN SetFsm(k.actor, FsmClear)
              ELSE UNCHANGED fsm
           /\ Wrote(k.op, k.actor, k.id)
    /\ tasks' = [tasks EXCEPT ![t].pc = "done"]
    /\ UNCHANGED <<now, ticks, nextId, probe>>

\* the handlers that bring a request to the approver's decision run one
\* after another; then the decisions run as tasks
ConcNext ==
    \/ AllIdle /\ CreateNext
    \/ AllIdle /\ \E i \in ReqIds : adm_change("a1", i)
    \/ AllIdle /\ \E d \in DateInputs : adm_cal_day("a1", d)
    \/ AllIdle /\ \E h \in HourInputs : adm_hour("a1", h)
    \/ AllIdle /\ \E m \in MinuteInputs : adm_min("a1", m)
    \/ AllIdle /\ \E x \in ReasonInputs : adm_change_reason("a1", x)
    \/ AllIdle /\ \E a \in Requesters, i \in ReqIds : user_change_decline(a, i)
    \/ AllIdle /\ \E a \in Requesters, x \in ReasonInputs : user_change_decline_reason(a, x)
    \/ AllIdle /\ \E a \in Requesters, i \in ReqIds : user_change_propose(a, i)
    \/ AllIdle /\ \E a \in Requesters, x \in ReasonInputs : user_change_propose_reason(a, x)
    \/ AllIdle /\ \E a \in Requesters, d \in DateInputs : user_change_day(a, d)
    \/ AllIdle /\ \E a \in Requesters, h \in HourInputs : user_change_hour(a, h)
    \/ AllIdle /\ \E a \in Requesters, m \in MinuteInputs : user_change_minute(a, m)
    \/ AllIdle /\ \E i \in ReqIds : adm_rej("a1", i)
    \/ AllIdle /\ \E i \in ReqIds : adm_reject_user_proposal("a1", i)
    \/ \E t \in TaskIds, op \in DecisionOps, a \in AdminCallers, i \in ReqIds :
           task_load(t, op, a, i)
    \/ \E t \in TaskIds : task_commit(t)

SpecConc == Init /\ [][ConcNext]_vars

\* ================================================================ properties
Closed(req) == req.status \in {"rejected", "deleted_by_user"}

\* the three slots of a row
Slots(req) == <<req.planned_date, req.planned_time, req.date, req.time,
                req.pending_date, req.pending_time>>

\* C1: in every reachable state a request has a pending (counter-proposal)
\* slot if and only if its status is pending_admin_decision.
C1_pending_iff_awaiting_decision ==
    \A i \in DOMAIN requests :
        (requests[i].pending_date # None /\ requests[i].pending_time # None)
            <=> requests[i].status = "pending_admin_decision"

\* C2: once completed_at is set, no later call changes or removes the row.
C2_completed_is_immutable ==
    [][\A i \in DOMAIN requests :
          requests[i].completed_at # None
              => i \in DOMAIN requests' /\ requests'[i] = requests[i]]_vars

\* C3: a request whose completed_at is set has status approved.
C3_completed_is_approved ==
    \A i \in DOMAIN requests :
        requests[i].completed_at # None => requests[i].status = "approved"

\* C4: a rejected or withdrawn request keeps its status and its slots in
\* every later step in which it stays in the table.
C4_rejected_is_terminal ==
    [][\A i \in DOMAIN requests \cap DOMAIN requests' :
          Closed(requests[i])
              => /\ requests'[i].status = requests[i].status
                 /\ Slots(requests'[i]) = Slots(requests[i])]_vars

\* what task t's handler makes of the row req when it runs alone
Serial(t, req) ==
    IF decision_ok(tasks[t].op, tasks[t].actor, req)
    THEN decision_row(tasks[t].op, tasks[t].actor, req)
    ELSE req

Ended(t) == tasks[t].pc \in {"done", "refused"}

\* C5: when two approver decisions on one request have both ended, the
\* stored row is the result of running them one after the other in one of
\* the two orders.
C5_decisions_are_serialized ==
    \A t, u \in TaskIds :
        (/\ t # u
         /\ Ended(t) /\ Ended(u)
         /\ tasks[t].id = tasks[u].id
         /\ Exists(tasks[t].id))
        => requests[tasks[t].id] \in
               {Serial(u, Serial(t, tasks[t].snap)),
                Serial(t, Serial(u, tasks[u].snap))}

\* the From-states the transition table lists for the handler that commits
\* the action
FromStates(op) ==
    CASE op = "adm_ok" -> {"new"}
      [] op = "adm_rej_reason" ->
             {"new", "pending_user_confirmation", "pending_admin_decision",
              "pending_user_final"}
      [] op = "adm_change_reason" -> {"new", "pending_admin_decision"}
      [] op \in {"user_change_confirm", "user_change_delete_reason"} ->
             {"pending_user_confirmation", "pending_user_final"}
      [] op \in {"adm_keep_client_time", "adm_keep_admin_time",
                 "adm_accept_user_proposal", "adm_reject_user_proposal_reason"} ->
             {"pending_admin_decision"}
      [] OTHER -> {"new", "approved", "rejected", "deleted_by_user",
                   "pending_user_confirmation", "pending_admin_decision",
                   "pending_user_final"}

\* C6: a call by an admin or by the owner changes a request that is neither
\* closed nor completed only when the request is in one of the From-states
\* listed for the action.
C6_actions_only_from_listed_states ==
    [][\A i \in DOMAIN requests \cap DOMAIN requests' :
          (/\ requests'[i] # requests[i]
           /\ is_admin_user(last'.actor) \/ last'.actor = requests[i].user_id
           /\ ~Closed(requests[i])
           /\ requests[i].completed_at = None)
          => requests[i].status \in FromStates(last'.op)]_vars

\* C7: approve, reject and propose-change change a request's status, slots
\* or approver assignment only when the caller is an admin.
C7_approver_actions_need_an_approver ==
    [][\A i \in DOMAIN requests \cap DOMAIN requests' :
          (/\ last'.op \in {"adm_ok", "adm_rej_reason", "adm_change_reason"}
           /\ ~is_admin_user(last'.actor))
          => /\ requests'[i].status = requests[i].status
             /\ Slots(requests'[i]) = Slots(requests[i])
             /\ requests'[i].admin_id = requests[i].admin_id]_vars

\* a slot that is legal when chosen at `now` for a request created at
\* created_at: inside 09:00-16:30 on the half-hour grid, not on a Sunday, not
\* before the later of now and created_at + 1 hour
LegalSlot(d, txt, created_at) ==
    /\ ParseHour(txt) \in 9..16
    /\ ParseMinute(txt) \in {0, 30}
    /\ Weekday(d) # 6
    /\ Combine(d, ParseHour(txt), ParseMinute(txt)) >= now
    /\ Combine(d, ParseHour(txt), ParseMinute(txt)) >= created_at + 3600

\* the slots of the row after a step that the row before it does not hold
NewSlots(before, after) ==
    {<<after.planned_date, after.planned_time>>, <<after.date, after.time>>,
     <<after.pending_date, after.pending_time>>}
    \ {<<before.planned_date, before.planned_time>>, <<before.date, before.time>>,
       <<before.pending_date, before.pending_time>>, <<None, None>>}

\* C8: every slot a step writes to a request's planned, pending or
\* confirmed slot is legal at the instant of the step.
C8_written_slots_are_legal ==
    [][\A i \in DOMAIN requests \cap DOMAIN requests' :
          \A slot \in NewSlots(requests[i], requests'[i]) :
              LegalSlot(slot[1], slot[2], requests[i].created_at)]_vars

\* C9: for a Sunday, available_hours and available_minutes return no slot.
C9_sunday_has_no_slot ==
    (probe.kind \in {"minutes", "hours"} /\ Weekday(probe.date) = 6)
        => probe.result = {}

\* C10: available_minutes is empty for an hour before 9 or after 16 and is
\* a subset of {0, 30}; available_hours is a subset of 9..16.
C10_working_window ==
    /\ probe.kind = "minutes"
           => /\ (probe.hour < 9 \/ probe.hour > 16) => probe.result = {}
              /\ probe.result \subseteq {0, 30}
    /\ probe.kind = "hours" => probe.result \subseteq 9..16

\* C10 witness: available_minutes was asked for hour 17 of a later weekday
\* with no floor, and returned no minute.
C10_witness_after_closing ==
    /\ probe.kind = "minutes"
    /\ probe.hour = 17
    /\ probe.date > DateOf(now)
    /\ Weekday(probe.date) # 6
    /\ probe.earliest_dt = None
    /\ probe.result = {}

\* ------------------------------------- the calculator called twice in a flow
\* One booking flow calls the calculator with the same arguments twice: the
\* handler that shows a keyboard computes the set it offers, the handler
\* that receives the button computes the set again to re-validate.  Neither
\* call passes now_dt, so each reads kyiv_now() when it runs.
InitRecall ==
    /\ now \in ProbeNows
    /\ ticks = 0
    /\ requests = << >>
    /\ nextId = 1
    /\ fsm = [a \in Actors |-> FsmClear]
    /\ last = NoCall
    /\ tasks = [t \in TaskIds |-> IdleTask]
    /\ probe \in [kind : {"args"}, date : ProbeDates, hour : ProbeHours,
                  earliest_dt : ProbeFloors, result : {{}},
                  offered : {{}}, offered_at : {None}]

\* cal_day: the hour keyboard
offer_hours ==
    /\ probe.kind = "args"
    /\ probe' = [probe EXCEPT
           !.kind = "hours offered",
           !.offered = available_hours(probe.date, now, probe.earliest_dt),
           !.offered_at = now]
    /\ UNCHANGED <<now, ticks, requests, nextId, fsm, last, tasks>>

\* hour_selected: valid_hours
revalidate_hours ==
    /\ probe.kind = "hours offered"
    /\ probe' = [probe EXCEPT
           !.kind = "hours revalidated",
           !.result = available_hours(probe.date, now, probe.earliest_dt)]
    /\ UNCHANGED <<now, ticks, requests, nextId, fsm, last, tasks>>

\* hour_selected: the minute keyboard
offer_minutes ==
    /\ probe.kind = "args"
    /\ probe' = [probe EXCEPT
           !.kind = "minutes offered",
           !.offered = available_minutes(probe.date, probe.hour, now,
                                         probe.earliest_dt),
           !.offered_at = now]
    /\ UNCHANGED <<now, ticks, requests, nextId, fsm, last, tasks>>

\* revalidate_minutes re-validating against the window that closes late
revalidate_minutes_open_late ==
    /\ probe.kind = "minutes offered"
    /\ probe' = [probe EXCEPT
           !.kind = "minutes revalidated",
           !.result = available_minutes_open_late(probe.date, probe.hour, now,
                                                  probe.earliest_dt)]
    /\ UNCHANGED <<now, ticks, requests, nextId, fsm, last, tasks>>

\* minute_selected: "if int(minute) not in available_minutes(...)"
revalidate_minutes ==
    /\ probe.kind = "minutes offered"
    /\ probe' = [probe EXCEPT
           !.kind = "minutes revalidated",
           !.result = available_minutes(probe.date, probe.hour, now,
                                        probe.earliest_dt)]
    /\ UNCHANGED <<now, ticks, requests, nextId, fsm, last, tasks>>

\* the requester waits between the keyboard and the button
RecallNext ==
    \/ offer_hours
    \/ revalidate_hours
    \/ offer_minutes
    \/ revalidate_minutes
    \/ \E s \in FormTickSteps : Tick(s)

SpecRecall == InitRecall /\ [][RecallNext]_vars

\* ------------------------------------------- the form with a slow requester
\* The requester's own handlers with the clock moving between two steps of
\* a form: the lead-time floor is taken when the form reaches the calendar,
\* created_at when the minute button arrives.
FormNext ==
    \/ \E s \in FormTickSteps : Tick(s)
    \/ \E a \in Requesters : handle_main_menu(a)
    \/ CreateNext
    \/ \E a \in Requesters, i \in ReqIds : my_delete(a, i)
    \/ \E a \in Requesters, t \in ReasonInputs : my_delete_reason(a, t)
    \/ \E a \in Requesters, i \in ReqIds : my_edit(a, i)
    \/ \E a \in Requesters, t \in ReasonInputs : my_edit_reason(a, t)
    \/ \E a \in Requesters, c \in EditChoices : user_edit_field_choice(a, c)
    \/ \E a \in Requesters, t \in SupplierInputs : user_edit_supplier(a, t)
    \/ \E a \in Requesters, d \in DateInputs : user_edit_day(a, d)
    \/ \E a \in Requesters, h \in HourInputs : user_edit_hour(a, h)
    \/ \E a \in Requesters, m \in MinuteInputs : user_edit_minute(a, m)

SpecForm == Init /\ [][FormNext]_vars

\* ------------------------------------------------ finishing while time passes
\* Creation, approval, rejection, deletion and the two callers of
\* complete_request (adm_finish and the sweeper) with the clock advancing.
FinishNext ==
    \/ \E s \in TickSteps : Tick(s)
    \/ _auto_close_tick
    \/ \E a \in Requesters \cup DecisionCallers : handle_main_menu(a)
    \/ CreateNext
    \/ \E a \in DecisionCallers, i \in ReqIds : adm_ok(a, i)
    \/ \E a \in DecisionCallers, i \in ReqIds : adm_rej(a, i)
    \/ \E a \in DecisionCallers, t \in ReasonInputs : adm_rej_reason(a, t)
    \/ \E a \in DecisionCallers, i \in ReqIds : adm_finish(a, i)
    \/ \E a \in AdminCallers, i \in ReqIds : adm_delete(a, i)

SpecFinish == Init /\ [][FinishNext]_vars

\* --------------------------------------------- the recency window of an owner
\* dp = Dispatcher() keeps one dialogue per user and chat, so a requester who
\* talks to the bot in a second chat fills the creation form there while a
\* dialogue of the first chat stays open.  The form of the second chat
\* touches only its own dialogue record until minute_selected inserts the
\* row, so it is taken as one step here; fsm[a] is the dialogue of the
\* first chat.
MaxOwn == 4
OwnIds == 1..MaxOwn

create_from_other_chat(a, chosen, hour, minute) ==
    /\ nextId <= MaxOwn
    /\ LET min_dt == min_planned_datetime(now)
       IN  /\ ~DayRefused(chosen, min_dt)
           /\ hour \in available_hours(chosen, now, min_dt)
           /\ Combine(chosen, hour, minute) >= min_dt
           /\ minute \in available_minutes(chosen, hour, now, min_dt)
    /\ requests' = [j \in DOMAIN requests \cup {nextId} |->
                      IF j = nextId
                      THEN NewRow(a, chosen, FormatTime(hour, minute), now)
                      ELSE requests[j]]
    /\ nextId' = nextId + 1
    /\ Wrote("minute_selected", a, nextId)
    /\ UNCHANGED <<now, ticks, fsm, probe, tasks>>

RecentNext ==
    \/ \E a \in Requesters, d \in DateInputs, h \in HourInputs,
          m \in MinuteInputs : create_from_other_chat(a, d, h, m)
    \/ \E a \in Requesters : handle_main_menu(a)
    \/ \E a \in Requesters, i \in OwnIds : my_delete(a, i)
    \/ \E a \in Requesters, t \in ReasonInputs : my_delete_reason(a, t)
    \/ \E a \in Requesters, i \in OwnIds : my_edit(a, i)
    \/ \E a \in Requesters, t \in ReasonInputs : my_edit_reason(a, t)
    \/ \E a \in Requesters : user_edit_field_choice(a, "supplier")
    \/ \E a \in Requesters, t \in SupplierInputs : user_edit_supplier(a, t)

SpecRecent == Init /\ [][RecentNext]_vars

\* ------------------------------------------- the sweeper, one request at a time
\* main() starts auto_close_overdue_requests as an asyncio task next to the
\* handlers.  _auto_close_tick reads the clock and the approved, unfinished
\* rows once, then awaits complete_request for each row whose close_after
\* has passed; complete_request opens its own session and reads the row
\* again, and handlers run between two of its calls.  The select has no
\* ORDER BY, so the rows come in any order.  The store is taken to answer;
\* the errors are those complete_request raises after its commit, from
\* sheet_client.sync_request and notify_admins_about_action.
MaxSwept == 2
SweptIds == 1..MaxSwept

\* the slot of `tasks` that holds the sweeper: `scanned` are the rows the
\* running tick found due, `due` those it has not called complete_request
\* for yet, `failed` the rows whose exception the loop has logged
SweeperTask == 1

Sleeping == [pc |-> "idle", op |-> "_auto_close_tick", actor |-> "sweeper",
             id |-> None, snap |-> << >>, row |-> << >>,
             scanned |-> {}, due |-> {}, failed |-> {}]

InitSweep ==
    /\ now = StartNow
    /\ ticks = 0
    /\ requests = << >>
    /\ nextId = 1
    /\ fsm = [a \in Actors |-> FsmClear]
    /\ last = NoCall
    /\ probe = NoProbe
    /\ tasks = [t \in TaskIds |-> IF t = SweeperTask THEN Sleeping ELSE IdleTask]

\* _auto_close_tick up to its loop: the rows it is going to finish
sweep_scan ==
    /\ tasks[SweeperTask].pc = "idle"
    /\ Overdue # {}
    /\ tasks' = [tasks EXCEPT ![SweeperTask] =
                    [tasks[SweeperTask] EXCEPT !.pc = "sweeping",
                                               !.scanned = Overdue,
                                               !.due = Overdue]]
    /\ UNCHANGED <<now, ticks, requests, nextId, fsm, last, probe>>

\* the sweeper after complete_request(i) has ended: back in the loop, or
\* asleep when `i` was the last row
SweeperAfter(i) ==
    [tasks[SweeperTask] EXCEPT
        !.due = @ \ {i},
        !.pc = IF tasks[SweeperTask].due = {i} THEN "idle" ELSE "sweeping"]

\* one turn of the loop: complete_request(i, auto=True) returns
sweep_complete(i) ==
    /\ tasks[SweeperTask].pc = "sweeping"
    /\ i \in tasks[SweeperTask].due
    /\ IF CanComplete(i)
       THEN /\ Commit(i, Completed(requests[i]))
            /\ Wrote("_auto_close_tick", "sweeper", i)
       ELSE UNCHANGED <<requests, last>>
    /\ tasks' = [tasks EXCEPT ![SweeperTask] = SweeperAfter(i)]
    /\ UNCHANGED <<now, ticks, nextId, fsm, probe>>

\* a sweeper whose task ends with the exception
sweep_raise_and_stop(i) ==
    /\ tasks[SweeperTask].pc = "sweeping"
    /\ i \in tasks[SweeperTask].due
    /\ CanComplete(i)
    /\ Commit(i, Completed(requests[i]))
    /\ Wrote("_auto_close_tick", "sweeper", i)
    /\ tasks' = [tasks EXCEPT ![SweeperTask] =
                    [tasks[SweeperTask] EXCEPT !.pc = "stopped", !.due = {},
                                               !.failed = @ \cup {i}]]
    /\ UNCHANGED <<now, ticks, nextId, fsm, probe>>

\* one turn of the loop: complete_request(i, auto=True) commits and then
\* raises.  The exception leaves the for loop of _auto_close_tick, is logged
\* by auto_close_overdue_requests, and the sweeper sleeps until the next tick.
sweep_raise(i) ==
    /\ tasks[SweeperTask].pc = "sweeping"
    /\ i \in tasks[SweeperTask].due
    /\ CanComplete(i)
    /\ Commit(i, Completed(requests[i]))
    /\ Wrote("_auto_close_tick", "sweeper", i)
    /\ tasks' = [tasks EXCEPT ![SweeperTask] =
                    [tasks[SweeperTask] EXCEPT !.pc = "idle", !.due = {},
                                               !.failed = @ \cup {i}]]
    /\ UNCHANGED <<now, ticks, nextId, fsm, probe>>

SweeperNext ==
    \/ sweep_scan
    \/ \E i \in SweptIds : sweep_complete(i)
    \/ \E i \in SweptIds : sweep_raise(i)

SweepNext ==
    \/ \E s \in TickSteps : Tick(s)
    \/ SweeperNext
    \/ \E a \in Requesters, d \in DateInputs, h \in HourInputs, m \in MinuteInputs :
           nextId <= MaxSwept /\ create_from_other_chat(a, d, h, m)
    \/ handle_main_menu("a1")
    \/ \E i \in SweptIds : adm_ok("a1", i)
    \/ \E i \in SweptIds : adm_rej("a1", i)
    \/ \E t \in ReasonInputs : adm_rej_reason("a1", t)
    \/ \E i \in SweptIds : adm_finish("a1", i)
    \/ \E i \in SweptIds : adm_delete("sa", i)

SpecSweep == InitSweep /\ [][SweepNext]_vars

\* the sweeper's loop keeps running: a tick that can start does start, and a
\* call of complete_request that was made does end
SpecSweepFair ==
    /\ SpecSweep
    /\ WF_vars(sweep_scan)
    /\ WF_vars(\E i \in SweptIds : sweep_complete(i) \/ sweep_raise(i))

\* the sweeper next to every handler that takes a request out of the rows it
\* scanned: reject, propose a change, edit, delete, finish
StaleNext ==
    \/ \E s \in TickSteps : Tick(s)
    \/ SweeperNext
    \/ CreateNext
    \/ \E a \in Requesters \cup {"a1"} : handle_main_menu(a)
    \/ \E i \in ReqIds : adm_ok("a1", i)
    \/ \E i \in ReqIds : adm_rej("a1", i)
    \/ \E t \in ReasonInputs : adm_rej_reason("a1", t)
    \/ \E i \in ReqIds : adm_finish("a1", i)
    \/ \E i \in ReqIds : adm_delete("sa", i)
    \/ \E i \in ReqIds : adm_change("a1", i)
    \/ \E d \in DateInputs : adm_cal_day("a1", d)
    \/ \E h \in HourInputs : adm_hour("a1", h)
    \/ \E m \in MinuteInputs : adm_min("a1", m)
    \/ \E t \in ReasonInputs : adm_change_reason("a1", t)
    \/ \E a \in Requesters, i \in ReqIds : my_edit(a, i)
    \/ \E a \in Requesters, t \in ReasonInputs : my_edit_reason(a, t)
    \/ \E a \in Requesters : user_edit_field_choice(a, "supplier")
    \/ \E a \in Requesters, t \in SupplierInputs : user_edit_supplier(a, t)

SpecStale == InitSweep /\ [][StaleNext]_vars

\* ------------------------------------------------- the negotiation on its own
\* the calls that commit a negotiation action
NegotiationWrite ==
    \/ \E t \in ReasonInputs : adm_change_reason("a1", t)
    \/ \E a \in Requesters, i \in ReqIds : user_change_confirm(a, i)
    \/ \E a \in Requesters, t \in ReasonInputs : user_change_delete_reason(a, t)
    \/ \E a \in Requesters, t \in ReasonInputs : user_change_decline_reason(a, t)
    \/ \E a \in Requesters, m \in MinuteInputs : user_change_minute(a, m)
    \/ \E i \in ReqIds : adm_keep_client_time("a1", i)
    \/ \E i \in ReqIds : adm_keep_admin_time("a1", i)
    \/ \E i \in ReqIds : adm_accept_user_proposal("a1", i)
    \/ \E t \in ReasonInputs : adm_reject_user_proposal_reason("a1", t)

\* the calls that open a dialogue of a negotiation action or move it on
NegotiationStep ==
    \/ \E a \in Requesters \cup {"a1"} : handle_main_menu(a)
    \/ \E i \in ReqIds : adm_change("a1", i)
    \/ \E d \in DateInputs : adm_cal_day("a1", d)
    \/ \E h \in HourInputs : adm_hour("a1", h)
    \/ \E m \in MinuteInputs : adm_min("a1", m)
    \/ \E a \in Requesters, i \in ReqIds : user_change_delete(a, i)
    \/ \E a \in Requesters, i \in ReqIds : user_change_decline(a, i)
    \/ \E a \in Requesters, i \in ReqIds : user_change_propose(a, i)
    \/ \E a \in Requesters, t \in ReasonInputs : user_change_propose_reason(a, t)
    \/ \E a \in Requesters, d \in DateInputs : user_change_day(a, d)
    \/ \E a \in Requesters, h \in HourInputs : user_change_hour(a, h)
    \/ \E i \in ReqIds : adm_reject_user_proposal("a1", i)

NegotiateNext == CreateNext \/ NegotiationStep \/ NegotiationWrite

SpecNegotiate == Init /\ [][NegotiateNext]_vars

\* the actors go on with the negotiation: while a negotiation action can be
\* committed, one is committed
SpecNegotiateFair == SpecNegotiate /\ WF_vars(NegotiationWrite)

\* ---------------------------------------- the requester's edit as a task
\* user_edit_supplier reads the row in the session of _load_request_for_edit,
\* which it closes, and writes it in the session of
\* finalize_user_edit_update; every await between the two lets another
\* handler or the sweeper commit.  The handler is split at that point.

\* user_edit_supplier up to session.commit() of finalize_user_edit_update:
\* the row is loaded, tested and assigned
edit_load(t, a, text) ==
    /\ tasks[t].pc = "idle"
    /\ \A u \in TaskIds : u < t => tasks[u].pc # "idle"
    /\ \A u \in TaskIds : tasks[u].pc # "loaded"       \* one edit in flight
    /\ fsm[a].st = "UserEditForm.supplier"
    /\ Strip(text) # ""
    /\ LET i == fsm[a].req_id
       IN  IF LoadedForEdit(a, i)
           THEN /\ tasks' = [tasks EXCEPT ![t] =
                               [pc |-> "loaded", op |-> "user_edit_supplier",
                                actor |-> a, id |-> i, snap |-> requests[i],
                                row |-> finalize_user_edit_update(
                                            [requests[i] EXCEPT
                                               !.supplier = Strip(text)])]]
                /\ UNCHANGED fsm
           ELSE /\ SetFsm(a, FsmClear)
                /\ UNCHANGED tasks
    /\ UNCHANGED <<now, ticks, requests, nextId, last, probe>>

\* session.add(req); await session.commit() of finalize_user_edit_update, and
\* the rest of the handler: the UPDATE carries the columns the handler
\* changed on the loaded object; on a row that is gone it raises
edit_commit(t) ==
    /\ tasks[t].pc = "loaded"
    /\ tasks[t].op = "user_edit_supplier"
    /\ LET k == tasks[t]
       IN  IF Exists(k.id)
           THEN /\ Commit(k.id, Flushed(requests[k.id], k.snap, k.row))
                /\ SetFsm(k.actor, FsmClear)
                /\ Wrote(k.op, k.actor, k.id)
           ELSE UNCHANGED <<requests, fsm, last>>
    /\ tasks' = [tasks EXCEPT ![t].pc = "done"]
    /\ UNCHANGED <<now, ticks, nextId, probe>>

EditTaskNext ==
    \/ \E s \in TickSteps : Tick(s)
    \/ _auto_close_tick
    \/ CreateNext
    \/ \E a \in Requesters \cup {"a1"} : handle_main_menu(a)
    \/ \E i \in ReqIds : adm_ok("a1", i)
    \/ \E i \in ReqIds : adm_rej("a1", i)
    \/ \E t \in ReasonInputs : adm_rej_reason("a1", t)
    \/ \E i \in ReqIds : adm_finish("a1", i)
    \/ \E i \in ReqIds : adm_delete("sa", i)
    \/ \E a \in Requesters, i \in ReqIds : my_edit(a, i)
    \/ \E a \in Requesters, t \in ReasonInputs : my_edit_reason(a, t)
    \/ \E a \in Requesters : user_edit_field_choice(a, "supplier")
    \/ \E t \in TaskIds, a \in Requesters, x \in SupplierInputs : edit_load(t, a, x)
    \/ \E t \in TaskIds : edit_commit(t)

SpecEditTask == Init /\ [][EditTaskNext]_vars

\* =============================================================== properties 2
\* hour:minute of an instant, in minutes of its day
ClockOf(t) == HourOf(t) * 60 + MinuteOf(t)

\* C11: on the floor's own date available_minutes returns exactly the
\* minutes of {0, 30} whose hour:minute is not before the floor's
\* hour:minute and, when the date is also today, not before the current
\* hour:minute.
C11_floor_and_today_filters ==
    (/\ probe.kind = "minutes"
     /\ probe.earliest_dt # None
     /\ probe.date = DateOf(probe.earliest_dt))
    => probe.result =
         {m \in {0, 30} :
            /\ probe.hour \in 9..16
            /\ probe.hour * 60 + m >= ClockOf(probe.earliest_dt)
            /\ probe.date = DateOf(now) => probe.hour * 60 + m >= ClockOf(now)}

\* C11 witness: available_minutes was asked for the floor's hour on the
\* floor's date, which is today, and returned the half hour only.
C11_witness_floor_hour ==
    /\ probe.kind = "minutes"
    /\ probe.earliest_dt # None
    /\ probe.date = DateOf(probe.earliest_dt)
    /\ probe.date = DateOf(now)
    /\ probe.hour = HourOf(probe.earliest_dt)
    /\ MinuteOf(probe.earliest_dt) > 0
    /\ probe.result = {30}

Revalidated == probe.kind \in {"hours revalidated", "minutes revalidated"}

PlannedInstant(req) ==
    Combine(req.planned_date, ParseHour(req.planned_time),
            ParseMinute(req.planned_time))

\* C14: the planned slot of a created request lies at least one hour after
\* its created_at, however long the requester takes to fill the form.
C14_created_one_hour_ahead ==
    \A i \in DOMAIN requests :
        (last.op = "minute_selected" /\ last.id = i)
        => PlannedInstant(requests[i])
               >= requests[i].created_at + LeadHours * 3600

\* C15: a finish call on a request that is already completed fails: no
\* step records a finish of it (the completion messages are sent only by
\* a call that does), and neither adm_finish nor the sweeper stamps it
\* again, so completed_at keeps the first value.
C15_finish_is_idempotent ==
    [][\A i \in DOMAIN requests :
          requests[i].completed_at # None
          => /\ ~(last' # last /\ last'.op = "adm_finish" /\ last'.id = i)
             /\ i \in DOMAIN requests'
                  => requests'[i].completed_at = requests[i].completed_at]_vars

\* C15 witness: a request was finished by adm_finish and the clock has moved
\* since, so a further finish call would stamp a different completed_at.
C15_witness_finished_earlier ==
    \E i \in DOMAIN requests :
        /\ requests[i].completed_at # None
        /\ requests[i].completed_at < now
        /\ last = [op |-> "adm_finish", actor |-> "a1", id |-> i]

\* C16: when the approver's propose-change with slot S is followed directly
\* by the requester's confirm, the confirm is accepted and leaves the
\* request approved with confirmed slot = planned slot = S and no pending
\* slot.
C16_propose_then_confirm ==
    /\ [](\A i \in DOMAIN requests :
            (last.op = "adm_change_reason" /\ last.id = i)
            => /\ UserMayDecide(requests[i].user_id, i,
                      {"pending_user_confirmation", "pending_user_final"})
               /\ requests[i].planned_date # None
               /\ requests[i].planned_time # None)
    /\ [][\A i \in DOMAIN requests :
            (/\ last.op = "adm_change_reason"
             /\ last.id = i
             /\ last'.op = "user_change_confirm")
            => /\ i \in DOMAIN requests'
               /\ requests'[i].status = "approved"
               /\ requests'[i].date = requests[i].planned_date
               /\ requests'[i].time = requests[i].planned_time
               /\ requests'[i].planned_date = requests[i].planned_date
               /\ requests'[i].planned_time = requests[i].planned_time
               /\ requests'[i].pending_date = None
               /\ requests'[i].pending_time = None]_vars

\* C16 witness: the requester has confirmed a slot an approver proposed,
\* and the request is approved on it.
C16_witness_confirmed_proposal ==
    \E i \in DOMAIN requests :
        /\ last = [op |-> "user_change_confirm", actor |-> requests[i].user_id,
                   id |-> i]
        /\ requests[i].admin_id = "a1"
        /\ requests[i].status = "approved"
        /\ requests[i].date = requests[i].planned_date
        /\ requests[i].time = requests[i].planned_time
        /\ requests[i].pending_date = None

\* C17: a successful create with the slot S the requester chose (date and
\* hour held by the form, minute pressed) leaves a new row with status NEW,
\* planned slot = confirmed slot = S, no pending slot, no approver and no
\* completed_at.
C17_create_fills_both_slots ==
    [][\A a \in Requesters, m \in MinuteInputs :
          (/\ fsm[a].st = "QueueForm.minute"
           /\ nextId' = nextId + 1
           /\ nextId \in DOMAIN requests'
           /\ ParseMinute(requests'[nextId].planned_time) = m)
          => LET req == requests'[nextId]
             IN  /\ nextId \notin DOMAIN requests
                 /\ req.user_id = a
                 /\ req.status = "new"
                 /\ req.planned_date = fsm[a].date
                 /\ ParseHour(req.planned_time) = fsm[a].hour
                 /\ req.date = fsm[a].date
                 /\ req.time = req.planned_time
                 /\ req.time = fsm[a].hour * 60 + m
                 /\ req.pending_date = None
                 /\ req.pending_time = None
                 /\ req.pending_reason = << >>
                 /\ req.admin_id = NoId
                 /\ req.completed_at = None]_vars

\* C17 witness: minute_selected has just created a request.
C17_witness_created ==
    \E i \in DOMAIN requests :
        /\ last = [op |-> "minute_selected", actor |-> "u1", id |-> i]
        /\ requests[i].status = "new"
        /\ requests[i].date = requests[i].planned_date
        /\ requests[i].time = requests[i].planned_time
        /\ requests[i].admin_id = NoId

Follows(prev, op, i) ==
    /\ last.op = prev
    /\ last.id = i
    /\ last'.op = op
    /\ last'.id = i
    /\ i \in DOMAIN requests'

\* the planned slot of request i is the same before and after the step
SamePlanned(i) ==
    /\ requests'[i].planned_date = requests[i].planned_date
    /\ requests'[i].planned_time = requests[i].planned_time

\* C19 (Scenario C): on an approved, not completed request the approver's
\* propose-change with slot S gives PENDING_REQUESTER_CONFIRM with planned
\* slot S; the requester's decline that follows gives
\* PENDING_APPROVER_DECISION; the approver's keep-proposed that follows
\* gives PENDING_REQUESTER_FINAL; the requester's confirm that follows gives
\* APPROVED with confirmed slot S.  The planned slot stays S from the
\* proposal to the confirm.
C19_scenario_C ==
    [][\A i \in DOMAIN requests :
          /\ (/\ requests[i].status = "approved"
              /\ requests[i].completed_at = None
              /\ last' = [op |-> "adm_change_reason", actor |-> "a1", id |-> i]
              /\ i \in DOMAIN requests'
              /\ requests'[i] # requests[i])
             => /\ requests'[i].status = "pending_user_confirmation"
                /\ requests'[i].planned_date = fsm["a1"].date
                /\ requests'[i].planned_time = fsm["a1"].time
          /\ Follows("adm_change_reason", "user_change_decline_reason", i)
             => /\ requests'[i].status = "pending_admin_decision"
                /\ SamePlanned(i)
          /\ Follows("user_change_decline_reason", "adm_keep_admin_time", i)
             => /\ requests'[i].status = "pending_user_final"
                /\ SamePlanned(i)
          /\ Follows("adm_keep_admin_time", "user_change_confirm", i)
             => /\ requests'[i].status = "approved"
                /\ SamePlanned(i)
                /\ requests'[i].date = requests[i].planned_date
                /\ requests'[i].time = requests[i].planned_time]_vars

\* C19 witness: the approver's proposal was declined with a reason and the
\* approver has kept it; the request waits for the requester's final word
\* on a planned slot that differs from the confirmed one.
C19_witness_kept_after_decline ==
    \E i \in DOMAIN requests :
        /\ last = [op |-> "adm_keep_admin_time", actor |-> "a1", id |-> i]
        /\ requests[i].status = "pending_user_final"
        /\ requests[i].pending_reason =
               << <<"Admin", "late">>, <<"User", "late">>, <<"Admin", "kept">> >>
        /\ requests[i].planned_date # requests[i].date

\* C20: a Sunday date never gets through the creation form: the hour and
\* minute steps never hold a Sunday date (cal_day refuses it and no other
\* handler stores the form's date), and no step creates a request whose
\* slot falls on a Sunday.
C20_no_sunday_creation ==
    /\ [](\A a \in Requesters :
            fsm[a].st \in {"QueueForm.hour", "QueueForm.minute"}
            => /\ fsm[a].date # None
               /\ Weekday(fsm[a].date) # 6)
    /\ [][\A i \in DOMAIN requests' :
            i \notin DOMAIN requests
            => /\ Weekday(requests'[i].planned_date) # 6
               /\ Weekday(requests'[i].date) # 6]_vars

\* C20 witness: the form shows the calendar while a Sunday is the one date
\* every other test of cal_day and the calculator itself would let through.
C20_witness_sunday_on_calendar ==
    \E d \in DateInputs :
        /\ fsm["u1"].st = "QueueForm.calendar"
        /\ Weekday(d) = 6
        /\ d >= DateOf(now)
        /\ d >= DateOf(fsm["u1"].min_plan_dt)
        /\ available_hours(d, now, fsm["u1"].min_plan_dt) # {}
        /\ DayRefused(d, fsm["u1"].min_plan_dt)

\* C21: adm_delete removes a request in status NEW only for a superadmin;
\* called by an ordinary admin (or by a non-admin) on a NEW request it
\* leaves the request in the table unchanged.
C21_new_is_deleted_by_superadmin_only ==
    [][\A i \in DOMAIN requests :
          (/\ requests[i].status = "new"
           /\ last'.op = "adm_delete"
           /\ (i \notin DOMAIN requests' \/ requests'[i] # requests[i]))
          => /\ is_super_admin_user(last'.actor)
             /\ last'.id = i
             /\ i \notin DOMAIN requests']_vars

\* C21 witness: a NEW request is in the table while "a1" is an admin without
\* the superadmin flag and "sa" is a superadmin.
C21_witness_new_and_plain_admin ==
    \E i \in DOMAIN requests :
        /\ requests[i].status = "new"
        /\ is_admin_user("a1")
        /\ ~is_super_admin_user("a1")
        /\ is_super_admin_user("sa")

\* reasons that are empty after strip()
BlankReasons == {t \in ReasonInputs : t \in {"", " "}}

\* C22: reject, decline, withdraw, reject-counter, requester-edit,
\* requester-delete and propose-change called with an empty or
\* whitespace-only reason fail: the step leaves the table (status, slots and
\* negotiation log of every request) unchanged and the caller stays at the
\* reason step.
C22_blank_reason_is_refused ==
    [][\A a \in Actors, t \in BlankReasons :
          (\/ adm_rej_reason(a, t)
           \/ user_change_decline_reason(a, t)
           \/ user_change_delete_reason(a, t)
           \/ adm_reject_user_proposal_reason(a, t)
           \/ my_edit_reason(a, t)
           \/ my_delete_reason(a, t)
           \/ adm_change_reason(a, t))
          => /\ requests' = requests
             /\ last' = last
             /\ fsm'[a].st = fsm[a].st]_vars

\* C22 witness: an admin is asked for the reason of a rejection of a request
\* that exists, with a blank text among the texts they may send.
C22_witness_reason_awaited ==
    /\ fsm["a1"].st = "AdminRejectForm.reason"
    /\ Exists(fsm["a1"].req_id)
    /\ requests[fsm["a1"].req_id].status = "new"
    /\ " " \in BlankReasons

\* the handlers that commit a requester action
RequesterWrites ==
    {"user_change_confirm", "user_change_decline_reason", "user_change_minute",
     "user_change_delete_reason", "user_edit_supplier", "user_edit_minute",
     "my_delete_reason"}

\* C23: confirm, decline, counter-propose, withdraw, requester-edit and
\* requester-delete change or remove a request only when the caller is its
\* owner.
C23_requester_actions_need_the_owner ==
    [][\A i \in DOMAIN requests :
          (/\ last'.op \in RequesterWrites
           /\ (i \notin DOMAIN requests' \/ requests'[i] # requests[i]))
          => last'.actor = requests[i].user_id]_vars

\* C23 witness: a request waits for its owner's answer to a proposal and
\* "u2", who does not own it, is among the callers of the requester
\* handlers without ever having got into one of their dialogues.
C23_witness_stranger_and_pending ==
    \E i \in DOMAIN requests :
        /\ requests[i].status = "pending_user_confirmation"
        /\ requests[i].user_id # "u2"
        /\ "u2" \in Users
        /\ fsm["u2"].st = "none"

\* the log of request i in the next state holds `reason` under some tag
Logged(i, reason) ==
    /\ i \in DOMAIN requests'
    /\ \E k \in DOMAIN requests'[i].pending_reason :
          requests'[i].pending_reason[k][2] = reason

IsPrefix(old, new) ==
    /\ Len(old) <= Len(new)
    /\ \A k \in 1..Len(old) : new[k] = old[k]

EditWrites == {"user_edit_supplier", "user_edit_minute"}

\* C27: a requester-edit that takes effect was made on a request that was
\* NEW, APPROVED or PENDING_* and not completed, and leaves it NEW with no
\* approver assigned; on a completed or rejected (withdrawn) request no
\* requester-edit changes anything.
C27_edit_resets_to_new ==
    [][\A i \in DOMAIN requests :
          (/\ last'.op \in EditWrites
           /\ requests' # requests
           /\ last'.id = i)
          => /\ requests[i].status \in
                   {"new", "approved", "pending_user_confirmation",
                    "pending_admin_decision", "pending_user_final"}
             /\ requests[i].completed_at = None
             /\ i \in DOMAIN requests'
             /\ requests'[i].status = "new"
             /\ requests'[i].admin_id = NoId]_vars

\* C27 witness: the owner has edited the supplier of a request that was
\* under an approver's proposal; it is NEW again with no approver.
C27_witness_edited_under_proposal ==
    \E i \in DOMAIN requests :
        /\ last = [op |-> "user_edit_supplier", actor |-> "u1", id |-> i]
        /\ requests[i].supplier = "bolt"
        /\ requests[i].pending_reason # << >>
        /\ requests[i].status = "new"
        /\ requests[i].admin_id = NoId

\* C28: a successful requester-delete keeps the record in the table, in the
\* withdrawn status ("deleted_by_user") and with the reason in its log.
C28_requester_delete_keeps_the_row ==
    [][\A i \in DOMAIN requests, a \in Requesters :
          (/\ last'.op = "my_delete_reason"
           /\ last'.actor = a
           /\ last'.id = i
           /\ requests' # requests)
          => /\ i \in DOMAIN requests'
             /\ requests'[i].status = "deleted_by_user"
             /\ Logged(i, fsm[a].reason)]_vars

\* C29: a requester-edit or requester-delete takes effect only on a request
\* that is among its owner's three most recently created requests when the
\* change is committed.
C29_only_recent_is_managed ==
    [][\A i \in DOMAIN requests :
          (/\ last'.op \in EditWrites \cup {"my_delete_reason"}
           /\ last'.id = i
           /\ requests' # requests)
          => i \in get_user_recent_requests(requests[i].user_id)]_vars

\* the deadline of a request: confirmed slot + 20 hours when a confirmed
\* slot exists, last update + 20 hours otherwise
Deadline(req) ==
    IF req.date # None /\ req.time # None
    THEN req.date * 86400 + (req.time \div 60) * 3600 + (req.time % 60) * 60
             + 20 * 3600
    ELSE req.updated_at + 20 * 3600

C31_error_spares_the_rest_of_the_sweep ==
    [][(tasks[SweeperTask].pc = "sweeping" /\ tasks'[SweeperTask].pc = "idle")
       => \A i \in tasks[SweeperTask].scanned \ tasks'[SweeperTask].failed :
              ~(/\ i \in DOMAIN requests'
                /\ requests'[i].status = "approved"
                /\ requests'[i].completed_at = None)]_vars

\* C32: an approved, unfinished request whose deadline has passed is in the
\* end completed, unless an actor deletes it or takes it out of approved.
C32_overdue_is_eventually_completed ==
    \A i \in SweptIds :
        (i \in Overdue) ~> (\/ i \notin DOMAIN requests
                            \/ requests[i].status # "approved"
                            \/ requests[i].completed_at # None)

\* a sweep was cut short by an error and the sweeper completed the row that
\* was left over in a later sweep
C32_witness_completed_after_an_error ==
    \E i \in DOMAIN requests :
        /\ tasks[SweeperTask].failed \notin {{}, {i}}
        /\ i \notin tasks[SweeperTask].failed
        /\ requests[i].completed_at # None
        /\ last = [op |-> "_auto_close_tick", actor |-> "sweeper", id |-> i]


\* C38: when the sweeper calls complete_request for a row it scanned and the
\* row is by then gone, not approved or already completed, the call writes
\* nothing.
C38_sweeper_revalidates ==
    [][\A i \in SweptIds :
          (/\ sweep_complete(i) \/ sweep_raise(i)
           /\ \/ i \notin DOMAIN requests
              \/ requests[i].status # "approved"
              \/ requests[i].completed_at # None)
          => UNCHANGED <<requests, last>>]_vars

\* a sweep is over and the row it had scanned, for which the approver
\* proposed another slot in between, is not completed
C38_witness_reproposed_after_the_scan ==
    \E i \in DOMAIN requests :
        /\ tasks[SweeperTask].pc = "idle"
        /\ tasks[SweeperTask].scanned = {i}
        /\ tasks[SweeperTask].failed = {}
        /\ requests[i].status = "pending_user_confirmation"
        /\ requests[i].completed_at = None


\* the statuses of a request under negotiation
Negotiating == {"pending_user_confirmation", "pending_admin_decision",
                "pending_user_final"}

\* the confirmed slot of request i is the same before and after the step
SameConfirmed(i) ==
    /\ requests'[i].date = requests[i].date
    /\ requests'[i].time = requests[i].time

\* C33: the approver's proposal and every step that leaves the request under
\* negotiation keep the confirmed slot, so that slot is the one in force
\* before the proposal; keep-original on a request awaiting the approver's
\* decision gives approved with the confirmed slot unchanged, the planned
\* slot equal to it and no pending slot.
C33_keep_original_restores_the_slot ==
    [][\A i \in DOMAIN requests :
          /\ (i \in DOMAIN requests' /\ requests'[i].status \in Negotiating)
             => SameConfirmed(i)
          /\ (/\ requests[i].status = "pending_admin_decision"
              /\ last' # last
              /\ last'.op = "adm_keep_client_time"
              /\ last'.id = i)
             => /\ requests'[i].status = "approved"
                /\ SameConfirmed(i)
                /\ requests'[i].planned_date = requests[i].date
                /\ requests'[i].planned_time = requests[i].time
                /\ requests'[i].pending_date = None
                /\ requests'[i].pending_time = None]_vars

\* a request awaits the approver's decision: the approver proposed a slot
\* other than the confirmed one, the requester answered with a third slot,
\* and keep-original is open to the approver
C33_witness_counter_proposal_awaits ==
    \E i \in DOMAIN requests :
        /\ requests[i].status = "pending_admin_decision"
        /\ <<requests[i].planned_date, requests[i].planned_time>>
               # <<requests[i].date, requests[i].time>>
        /\ requests[i].pending_date # None
        /\ <<requests[i].pending_date, requests[i].pending_time>>
               # <<requests[i].date, requests[i].time>>


\* C34: accept-counter writes only a request that awaits the approver's
\* decision with a pending slot P, and gives approved with the confirmed and
\* the planned slot equal to P and no pending slot; called on a request
\* without a pending slot, or in another status, it changes nothing.
C34_accept_counter ==
    [][\A i \in DOMAIN requests :
          /\ (last' # last /\ last'.op = "adm_accept_user_proposal" /\ last'.id = i)
             => /\ requests[i].status = "pending_admin_decision"
                /\ requests[i].pending_date # None
                /\ requests[i].pending_time # None
                /\ requests'[i].status = "approved"
                /\ requests'[i].date = requests[i].pending_date
                /\ requests'[i].time = requests[i].pending_time
                /\ requests'[i].planned_date = requests[i].pending_date
                /\ requests'[i].planned_time = requests[i].pending_time
                /\ requests'[i].pending_date = None
                /\ requests'[i].pending_time = None
          /\ \A a \in AdminCallers :
                (/\ adm_accept_user_proposal(a, i)
                 /\ \/ requests[i].status # "pending_admin_decision"
                    \/ requests[i].pending_date = None
                    \/ requests[i].pending_time = None)
                => UNCHANGED <<requests, last, fsm>>]_vars

\* accept-counter was the last call: the request is approved, its confirmed
\* and planned slot agree and nothing is pending
C34_witness_counter_accepted ==
    \E i \in DOMAIN requests :
        /\ last = [op |-> "adm_accept_user_proposal", actor |-> "a1", id |-> i]
        /\ requests[i].status = "approved"
        /\ requests[i].date = requests[i].planned_date
        /\ requests[i].time = requests[i].planned_time
        /\ requests[i].pending_date = None
        /\ requests[i].pending_reason = << >>


\* C35: while a request awaits the requester's final answer, decline and
\* counter-propose, whether the button is pressed now or the dialogue was
\* opened before the approver's answer and its last step comes now, write
\* nothing; pressing the button opens no dialogue.
C35_final_answer_is_confirm_or_withdraw ==
    [][\A i \in DOMAIN requests :
          requests[i].status = "pending_user_final"
          => /\ \A a \in Users :
                   (user_change_decline(a, i) \/ user_change_propose(a, i))
                   => UNCHANGED <<requests, last, fsm>>
             /\ \A a \in Users :
                   (/\ fsm[a].req_id = i
                    /\ \/ \E x \in ReasonInputs : user_change_decline_reason(a, x)
                       \/ \E m \in MinuteInputs : user_change_minute(a, m))
                   => UNCHANGED <<requests, last>>
             /\ (last' # last /\ last'.id = i)
                => last'.op \notin {"user_change_decline_reason",
                                    "user_change_minute"}]_vars

\* the requester opened the decline dialogue, the approver kept the proposed
\* slot, and the reason of the decline is still to come
C35_witness_decline_open_at_final ==
    \E i \in DOMAIN requests :
        /\ requests[i].status = "pending_user_final"
        /\ fsm[requests[i].user_id].st = "UserChangeResponse.decline_reason"
        /\ fsm[requests[i].user_id].req_id = i
        /\ last = [op |-> "adm_keep_admin_time", actor |-> "a1", id |-> i]


\* C36: a request that awaits the requester's answer to a proposal is, after
\* the negotiation actions that follow, approved or rejected.
C36_negotiation_ends ==
    \A i \in ReqIds :
        (i \in DOMAIN requests /\ requests[i].status = "pending_user_confirmation")
            ~> (i \in DOMAIN requests /\ requests[i].status \in {"approved", "rejected"})


\* C37: the write of a requester's edit leaves a request that is completed
\* or rejected at the moment of the write as it is.
C37_edit_spares_a_closed_request ==
    [][\A i \in DOMAIN requests :
          (/\ requests[i].completed_at # None \/ requests[i].status = "rejected"
           /\ last' # last
           /\ last'.op \in EditWrites
           /\ last'.id = i)
          => (i \in DOMAIN requests' /\ requests'[i] = requests[i])]_vars


\* C39: a request has no approver assigned exactly when it is new; only
\* create and the requester's edit produce a new request, both without an
\* approver, and a call that takes a request out of new assigns its caller.
C39_no_approver_iff_new ==
    /\ [](\A i \in DOMAIN requests :
             requests[i].admin_id = NoId <=> requests[i].status = "new")
    /\ [][\A i \in DOMAIN requests' :
             /\ (/\ requests'[i].status = "new"
                 /\ (i \notin DOMAIN requests \/ requests[i].status # "new"))
                => /\ last'.op \in {"minute_selected"} \cup EditWrites
                   /\ last'.id = i
                   /\ requests'[i].admin_id = NoId
             /\ (/\ i \in DOMAIN requests
                 /\ requests[i].status = "new"
                 /\ requests'[i].status # "new")
                => /\ last'.id = i
                   /\ requests'[i].admin_id = last'.actor]_vars

\* a request was edited by its requester: it is new and has no approver
C39_witness_edit_cleared_the_approver ==
    \E i \in DOMAIN requests :
        /\ last.op \in EditWrites
        /\ last.id = i
        /\ requests[i].status = "new"
        /\ requests[i].admin_id = NoId
        /\ requests[i].updated_at = now
        /\ requests[i].supplier = "bolt"


\* C40: a finish, by an approver or by the sweeper, is made on an approved,
\* unfinished request and changes completed_at and updated_at only; and
\* completed_at, once set, stays as it is while the row exists.
C40_finish_frame ==
    [][\A i \in DOMAIN requests :
          /\ (/\ last' # last
              /\ last'.op \in {"adm_finish", "_auto_close_tick"}
              /\ last'.id = i)
             => /\ requests[i].status = "approved"
                /\ requests[i].completed_at = None
                /\ i \in DOMAIN requests'
                /\ requests'[i] = [requests[i] EXCEPT !.completed_at = now,
                                                      !.updated_at = now]
          /\ (requests[i].completed_at # None /\ i \in DOMAIN requests')
             => requests'[i].completed_at = requests[i].completed_at]_vars

\* a request was finished, the clock moved on, and an approver's call wrote
\* the row again
C40_witness_written_after_finish ==
    \E i \in DOMAIN requests :
        /\ requests[i].completed_at # None
        /\ requests[i].completed_at < now
        /\ requests[i].updated_at = now
        /\ last.id = i
        /\ last.op \notin {"adm_finish", "_auto_close_tick"}

====
